---- MODULE Spec2Model ----
(***************************************************************************)
(* A model of the scheduling and delay-analysis engine of                  *)
(* construction_delay_analyzer: the CPM pass of schedule_parser.py, the    *)
(* comparator of analysis_engine.py and the window engine of               *)
(* forensic_windows.py.                                                    *)
(*                                                                         *)
(* Time.  A datetime is an integer count of seconds from 2024-01-01 00:00; *)
(* a timedelta is an integer count of seconds.  timedelta.days is the      *)
(* floor of the difference over one day, as in CPython.  An Optional value *)
(* is a sequence: << >> for None, <<v>> for the value v.                   *)
(***************************************************************************)
EXTENDS Integers, Sequences, FiniteSets, TLC

VARIABLES
    pc,             \* the phase of the component under analysis
    activities,     \* CPM: activity_id -> Activity record
    relationships,  \* CPM: the list of Relationship records, in file order
    cpm,            \* CPM: bookkeeping of the last _calculate_critical_path run
    engine,         \* AnalysisEngine: baseline_schedule and current_schedule
    hashOrder,      \* the iteration order of a set of activity ids in this process
    comparison,     \* the ComparisonResult of the last compare_schedules call
    previous,       \* the result of the comparison before it, or of the last
                    \* as-planned vs as-built analysis
    outcome,        \* how the last engine call ended
    delay_events,   \* the DelayEvent list handed to identify_concurrent_delays
    concurrent_delays,  \* the list the last concurrent-delay analysis returned
    windows,        \* ForensicWindowAnalyzer.windows
    request         \* the last call to the window engine or to a utility

cpmVars == <<activities, relationships, cpm>>

engineVars == <<engine, hashOrder, comparison, previous, outcome>>

delayVars == <<delay_events, concurrent_delays>>
windowVars == <<windows, request>>
vars == <<pc, cpmVars, engineVars, delayVars, windowVars>>

\* The values of a component's variables while another component is analysed.
CpmIdle == activities = << >> /\ relationships = << >> /\ cpm = << >>

EngineIdle ==
    /\ engine = << >> /\ hashOrder = << >>
    /\ comparison = << >> /\ previous = << >> /\ outcome = "none"

DelayIdle == delay_events = << >> /\ concurrent_delays = << >>

WindowIdle == windows = << >> /\ request = << >>

----------------------------------------------------------------------------
(* datetime and timedelta                                                  *)

Day == 24 * 60 * 60

HalfDay == 12 * 60 * 60

None == << >>

Some(v) == <<v>>

IsSet(d) == d # None

Val(d) == d[1]

\* timedelta.days: whole days, rounded towards minus infinity.
Days(delta) == delta \div Day

Min2(a, b) == IF a <= b THEN a ELSE b


Range(s) == {s[i] : i \in 1..Len(s)}

----------------------------------------------------------------------------
(* CPM engine: schedule_parser.py                                          *)

\* The activities of the schedule in list order, and an id no activity has.
ActivityList == <<"A", "B", "C">>

ActIds == Range(ActivityList)

MissingId == "X"

\* Bound: the number of relationships of the schedule.
MaxRels == 2

FS == "FINISH_TO_START"

SS == "START_TO_START"

FF == "FINISH_TO_FINISH"

SF == "START_TO_FINISH"

\* The (type, lag) pairs relationships are drawn from; a lag is a timedelta.
RelKinds ==
    { <<FS, 0>>, <<FS, Day>>, <<SS, Day>>, <<FF, 0 - HalfDay>>, <<SF, HalfDay>> }

RelChoices ==
    { [predecessor_id |-> p, successor_id |-> s,
       relationship_type |-> k[1], lag |-> k[2]] :
         p \in ActIds \cup {MissingId}, s \in ActIds, k \in RelKinds }

\* The recorded start date and duration of each activity of a clean input.
RecordedStart(a) ==
    CASE a = "A" -> 0
      [] a = "B" -> HalfDay
      [] OTHER   -> Day

RecordedDuration(a) ==
    CASE a = "A" -> Day
      [] a = "B" -> 3 * HalfDay
      [] OTHER   -> 2 * Day

\* A date the source file may carry as an already computed early/late date.
PresetDate == 3 * HalfDay

\* The Activity _parse_activities builds: no relationships yet; the float of
\* a task without total_float_hr_cnt is 0.0, which makes it critical.
NewActivity(a, start, es, ef, ls, lf) ==
    [ start_date   |-> start,
      duration     |-> RecordedDuration(a),
      early_start  |-> es,
      early_finish |-> ef,
      late_start   |-> ls,
      late_finish  |-> lf,
      total_float  |-> 0,
      is_critical  |-> TRUE,
      predecessors |-> << >>,
      successors   |-> << >> ]

CleanActivity(a) == NewActivity(a, Some(RecordedStart(a)), None, None, None, None)

CleanActivities == [a \in ActIds |-> CleanActivity(a)]

DateFields == {"early_start", "early_finish", "late_start", "late_finish"}

\* The float in days a task of the file may carry: total_float_hr_cnt / 8.
StoredFloat == 5

\* The parsed activity tables the model starts from: the clean table, the
\* clean table with one start date absent, with one early/late date set, or
\* with B carrying a positive float from the file, which makes it
\* non-critical.
InputActivities ==
    {CleanActivities}
    \cup { [CleanActivities EXCEPT ![a].start_date = None] : a \in ActIds }
    \cup { [CleanActivities EXCEPT ![a][f] = Some(PresetDate)] :
             a \in ActIds, f \in DateFields }
    \cup { [CleanActivities EXCEPT !["B"].total_float = StoredFloat,
                                    !["B"].is_critical = FALSE] }

\* _parse_relationships, one task_pred row: the relationship is appended and
\* the predecessor/successor id lists of the activities present are updated.
AppendRelationship(acts, rel) ==
    [a \in ActIds |->
        [acts[a] EXCEPT
            !.predecessors =
                IF a = rel.successor_id
                THEN Append(@, rel.predecessor_id) ELSE @,
            !.successors =
                IF a = rel.predecessor_id
                THEN Append(@, rel.successor_id) ELSE @]]

\* rel_dict[a]: the relationships whose successor is a.
RelDict(rels, a) == SelectSeq(rels, LAMBDA r : r.successor_id = a)

\* reverse_rel_dict[a]: the relationships whose predecessor is a.
ReverseRelDict(rels, a) == SelectSeq(rels, LAMBDA r : r.predecessor_id = a)

\* _calculate_constraint_date
CalculateConstraintDate(activity, rel_type, lag, is_forward) ==
    IF is_forward
    THEN CASE rel_type = FS ->
                IF IsSet(activity.early_finish)
                THEN Some(Val(activity.early_finish) + lag) ELSE None
           [] rel_type = SS ->
                IF IsSet(activity.early_start)
                THEN Some(Val(activity.early_start) + lag) ELSE None
           [] rel_type = FF ->
                IF IsSet(activity.early_finish)
                THEN Some(Val(activity.early_finish) + lag - 0) ELSE None
           [] rel_type = SF ->
                IF IsSet(activity.early_start)
                THEN Some(Val(activity.early_start) + lag - 0) ELSE None
           [] OTHER -> None
    ELSE CASE rel_type = FS ->
                IF IsSet(activity.late_start)
                THEN Some(Val(activity.late_start) - lag) ELSE None
           [] rel_type = SS ->
                IF IsSet(activity.late_start)
                THEN Some(Val(activity.late_start) - lag + 0) ELSE None
           [] rel_type = FF ->
                IF IsSet(activity.late_finish)
                THEN Some(Val(activity.late_finish) - lag) ELSE None
           [] rel_type = SF ->
                IF IsSet(activity.late_finish)
                THEN Some(Val(activity.late_finish) - lag + 0) ELSE None
           [] OTHER -> None

\* The state a pass threads through its visit calls: the activity table, the
\* visited set, whether the recursion overflowed (RecursionError), and how
\* often each activity's date block ran.
PassState(acts) ==
    [acts |-> acts, visited |-> {}, err |-> FALSE, count |-> [a \in ActIds |-> 0]]

\* Mutant of ForwardSeedOne: the recorded start overwrites an early start
\* the activity already has.
ForwardSeedOne_Overwrite(act) ==
    LET es == IF IsSet(act.start_date) THEN act.start_date ELSE act.early_start
        ef == IF ~IsSet(act.early_finish) /\ IsSet(es)
              THEN Some(Val(es) + act.duration) ELSE act.early_finish
    IN  [act EXCEPT !.early_start = es, !.early_finish = ef]

\* _forward_pass_with_relationships, lines 498-506: seeding of the activities
\* without predecessors; a date already present is kept.
ForwardSeedOne(act) ==
    LET es == IF ~IsSet(act.early_start) /\ IsSet(act.start_date)
              THEN act.start_date ELSE act.early_start
        ef == IF ~IsSet(act.early_finish) /\ IsSet(es)
              THEN Some(Val(es) + act.duration) ELSE act.early_finish
    IN  [act EXCEPT !.early_start = es, !.early_finish = ef]

ForwardSeed(acts) ==
    [a \in ActIds |->
        IF acts[a].predecessors = << >> THEN ForwardSeedOne(acts[a]) ELSE acts[a]]

\* A variant of the running maximum that keeps the smallest constraint date.
RECURSIVE MaxEarlyDate_Smallest(_, _, _, _)
MaxEarlyDate_Smallest(acts, rs, i, max_early_date) ==
    IF i > Len(rs) THEN max_early_date
    ELSE IF rs[i].predecessor_id \notin ActIds
         THEN MaxEarlyDate_Smallest(acts, rs, i + 1, max_early_date)
         ELSE LET constraint_date ==
                      CalculateConstraintDate(acts[rs[i].predecessor_id],
                          rs[i].relationship_type, rs[i].lag, TRUE)
              IN  IF IsSet(constraint_date)
                     /\ (~IsSet(max_early_date)
                         \/ Val(constraint_date) < Val(max_early_date))
                  THEN MaxEarlyDate_Smallest(acts, rs, i + 1, constraint_date)
                  ELSE MaxEarlyDate_Smallest(acts, rs, i + 1, max_early_date)

\* Lines 522-535: the running maximum of the constraint dates of rs[i..].
RECURSIVE MaxEarlyDate(_, _, _, _)
MaxEarlyDate(acts, rs, i, max_early_date) ==
    IF i > Len(rs) THEN max_early_date
    ELSE IF rs[i].predecessor_id \notin ActIds
         THEN MaxEarlyDate(acts, rs, i + 1, max_early_date)
         ELSE LET constraint_date ==
                      CalculateConstraintDate(acts[rs[i].predecessor_id],
                          rs[i].relationship_type, rs[i].lag, TRUE)
              IN  IF IsSet(constraint_date)
                     /\ (~IsSet(max_early_date)
                         \/ Val(constraint_date) > Val(max_early_date))
                  THEN MaxEarlyDate(acts, rs, i + 1, constraint_date)
                  ELSE MaxEarlyDate(acts, rs, i + 1, max_early_date)

\* Lines 520-539: the early dates of activity a from its relationships.
ForwardCompute(acts, rels, a) ==
    LET rs == RelDict(rels, a)
        max_early_date == MaxEarlyDate(acts, rs, 1, None)
    IN  IF rs # << >> /\ IsSet(max_early_date)
        THEN [acts EXCEPT
                 ![a].early_start = max_early_date,
                 ![a].early_finish = Some(Val(max_early_date) + acts[a].duration)]
        ELSE acts

\* Lines 511-541: visit.  The activity joins visited only after its
\* predecessors were visited, so a call for an activity whose own call is
\* still open (it is on the stack) is not stopped by the visited test: it
\* repeats the same calls without end, and CPython raises RecursionError.
RECURSIVE ForwardVisit(_, _, _, _), ForwardVisitPreds(_, _, _, _, _)
ForwardVisit(S, rels, a, stack) ==
    IF S.err \/ a \in S.visited THEN S
    ELSE IF a \in stack THEN [S EXCEPT !.err = TRUE]
    ELSE LET P == ForwardVisitPreds(S, rels, S.acts[a].predecessors, 1,
                                    stack \cup {a})
         IN  IF P.err THEN P
             ELSE [P EXCEPT !.acts = ForwardCompute(P.acts, rels, a),
                            !.visited = @ \cup {a},
                            !.count[a] = @ + 1]

ForwardVisitPreds(S, rels, preds, i, stack) ==
    IF S.err \/ i > Len(preds) THEN S
    ELSE IF preds[i] \in ActIds
         THEN ForwardVisitPreds(ForwardVisit(S, rels, preds[i], stack),
                                rels, preds, i + 1, stack)
         ELSE ForwardVisitPreds(S, rels, preds, i + 1, stack)

\* Lines 543-544: for act in activities: visit(act)
RECURSIVE ForwardVisitAll(_, _, _)
ForwardVisitAll(S, rels, i) ==
    IF S.err \/ i > Len(ActivityList) THEN S
    ELSE ForwardVisitAll(ForwardVisit(S, rels, ActivityList[i], {}), rels, i + 1)

ForwardPassWithRelationships(acts, rels) ==
    ForwardVisitAll(PassState(ForwardSeed(acts)), rels, 1)

\* _backward_pass_with_relationships, lines 553-561: seeding of the
\* activities without successors.
BackwardSeedOne(act) ==
    LET lf == IF ~IsSet(act.late_finish) /\ IsSet(act.early_finish)
              THEN act.early_finish ELSE act.late_finish
        ls == IF ~IsSet(act.late_start) /\ IsSet(lf)
              THEN Some(Val(lf) - act.duration) ELSE act.late_start
    IN  [act EXCEPT !.late_finish = lf, !.late_start = ls]

BackwardSeed(acts) ==
    [a \in ActIds |->
        IF acts[a].successors = << >> THEN BackwardSeedOne(acts[a]) ELSE acts[a]]

\* A variant of the running minimum that keeps the first constraint date.
RECURSIVE MinLateDate_First(_, _, _, _)
MinLateDate_First(acts, rs, i, min_late_date) ==
    IF i > Len(rs) THEN min_late_date
    ELSE IF rs[i].successor_id \notin ActIds
         THEN MinLateDate_First(acts, rs, i + 1, min_late_date)
         ELSE LET constraint_date ==
                      CalculateConstraintDate(acts[rs[i].successor_id],
                          rs[i].relationship_type, rs[i].lag, FALSE)
              IN  IF IsSet(constraint_date) /\ ~IsSet(min_late_date)
                  THEN MinLateDate_First(acts, rs, i + 1, constraint_date)
                  ELSE MinLateDate_First(acts, rs, i + 1, min_late_date)

\* Lines 585-598: the running minimum of the constraint dates of rs[i..].
RECURSIVE MinLateDate(_, _, _, _)
MinLateDate(acts, rs, i, min_late_date) ==
    IF i > Len(rs) THEN min_late_date
    ELSE IF rs[i].successor_id \notin ActIds
         THEN MinLateDate(acts, rs, i + 1, min_late_date)
         ELSE LET constraint_date ==
                      CalculateConstraintDate(acts[rs[i].successor_id],
                          rs[i].relationship_type, rs[i].lag, FALSE)
              IN  IF IsSet(constraint_date)
                     /\ (~IsSet(min_late_date)
                         \/ Val(constraint_date) < Val(min_late_date))
                  THEN MinLateDate(acts, rs, i + 1, constraint_date)
                  ELSE MinLateDate(acts, rs, i + 1, min_late_date)

\* Lines 583-602: the late dates of activity a from its relationships.
BackwardCompute(acts, rels, a) ==
    LET rs == ReverseRelDict(rels, a)
        min_late_date == MinLateDate(acts, rs, 1, None)
    IN  IF rs # << >> /\ IsSet(min_late_date)
        THEN [acts EXCEPT
                 ![a].late_finish = min_late_date,
                 ![a].late_start = Some(Val(min_late_date) - acts[a].duration)]
        ELSE acts

\* Lines 574-604: visit of the backward pass, over the successor lists.
RECURSIVE BackwardVisit(_, _, _, _), BackwardVisitSuccs(_, _, _, _, _)
BackwardVisit(S, rels, a, stack) ==
    IF S.err \/ a \in S.visited THEN S
    ELSE IF a \in stack THEN [S EXCEPT !.err = TRUE]
    ELSE LET P == BackwardVisitSuccs(S, rels, S.acts[a].successors, 1,
                                     stack \cup {a})
         IN  IF P.err THEN P
             ELSE [P EXCEPT !.acts = BackwardCompute(P.acts, rels, a),
                            !.visited = @ \cup {a},
                            !.count[a] = @ + 1]

BackwardVisitSuccs(S, rels, succs, i, stack) ==
    IF S.err \/ i > Len(succs) THEN S
    ELSE IF succs[i] \in ActIds
         THEN BackwardVisitSuccs(BackwardVisit(S, rels, succs[i], stack),
                                 rels, succs, i + 1, stack)
         ELSE BackwardVisitSuccs(S, rels, succs, i + 1, stack)

\* Lines 606-607: for act in reversed(activities): visit(act)
RECURSIVE BackwardVisitAll(_, _, _)
BackwardVisitAll(S, rels, i) ==
    IF S.err \/ i < 1 THEN S
    ELSE BackwardVisitAll(BackwardVisit(S, rels, ActivityList[i], {}), rels, i - 1)

BackwardPassWithRelationships(acts, rels) ==
    BackwardVisitAll(PassState(BackwardSeed(acts)), rels, Len(ActivityList))

\* Mutant of FloatAndCritical: the finish float does not tighten total_float.
FloatAndCritical_NoTighten(act) ==
    IF IsSet(act.early_start) /\ IsSet(act.late_start)
    THEN LET tf == Days(Val(act.late_start) - Val(act.early_start))
         IN  [act EXCEPT !.total_float = tf, !.is_critical = (tf <= 0)]
    ELSE act

\* _calculate_critical_path, lines 475-483: float and criticality of one
\* activity.  is_critical is assigned from the start float, before the
\* finish float tightens total_float.
FloatAndCritical(act) ==
    LET a1 == IF IsSet(act.early_start) /\ IsSet(act.late_start)
              THEN LET tf == Days(Val(act.late_start) - Val(act.early_start))
                   IN  [act EXCEPT !.total_float = tf, !.is_critical = (tf <= 0)]
              ELSE act
    IN  IF IsSet(a1.early_finish) /\ IsSet(a1.late_finish)
        THEN LET finish_float == Days(Val(a1.late_finish) - Val(a1.early_finish))
             IN  [a1 EXCEPT !.total_float = Min2(a1.total_float, finish_float)]
        ELSE a1

\* _calculate_critical_path, lines 456-489.  An exception of a pass leaves
\* the try block: the later steps are skipped and a warning is logged.
CalculateCriticalPath(acts, rels) ==
    LET F == ForwardPassWithRelationships(acts, rels)
    IN  IF F.err
        THEN [acts |-> F.acts, error |-> TRUE, stage |-> "forward",
              fcount |-> F.count, bcount |-> [a \in ActIds |-> 0]]
        ELSE LET B == BackwardPassWithRelationships(F.acts, rels)
             IN  IF B.err
                 THEN [acts |-> B.acts, error |-> TRUE, stage |-> "backward",
                       fcount |-> F.count, bcount |-> B.count]
                 ELSE [acts |-> [a \in ActIds |-> FloatAndCritical(B.acts[a])],
                       error |-> FALSE, stage |-> "done",
                       fcount |-> F.count, bcount |-> B.count]

----------------------------------------------------------------------------
(* The CPM run as a state machine: the relationships are parsed one by one, *)
(* then _calculate_critical_path runs once over the parsed schedule.        *)

NoCpm ==
    [error |-> FALSE, stage |-> "none",
     fcount |-> [a \in ActIds |-> 0], bcount |-> [a \in ActIds |-> 0],
     before |-> CleanActivities]

InitCPM ==
    /\ pc = "parsing"
    /\ activities \in InputActivities
    /\ relationships = << >>
    /\ cpm = NoCpm
    /\ EngineIdle /\ DelayIdle /\ WindowIdle

ParseRelationship ==
    /\ pc = "parsing"
    /\ Len(relationships) < MaxRels
    /\ \E rel \in RelChoices :
          /\ relationships' = Append(relationships, rel)
          /\ activities' = AppendRelationship(activities, rel)
    /\ UNCHANGED <<pc, cpm, engineVars, delayVars, windowVars>>

RunCriticalPath ==
    /\ pc = "parsing"
    /\ LET R == CalculateCriticalPath(activities, relationships)
       IN  /\ activities' = R.acts
           /\ cpm' = [error |-> R.error, stage |-> R.stage,
                      fcount |-> R.fcount, bcount |-> R.bcount,
                      before |-> activities]
    /\ pc' = "cpm_done"
    /\ UNCHANGED <<relationships, engineVars, delayVars, windowVars>>

NextCPM == ParseRelationship \/ RunCriticalPath

SpecCPM == InitCPM /\ [][NextCPM]_vars
----------------------------------------------------------------------------
(* Claims about the CPM engine (checked under SpecCPM)                      *)

CpmDone == pc = "cpm_done"

\* The float step of _calculate_critical_path ran (no pass raised).
CpmFloatStepRan == CpmDone /\ ~cpm.error

HasAllFourDates(act) ==
    /\ IsSet(act.early_start) /\ IsSet(act.early_finish)
    /\ IsSet(act.late_start) /\ IsSet(act.late_finish)

StartFloat(act) == Days(Val(act.late_start) - Val(act.early_start))

FinishFloat(act) == Days(Val(act.late_finish) - Val(act.early_finish))

\* Some activity reaches itself along relationships between present activities.
RECURSIVE ReachableFrom(_, _)
ReachableFrom(frontier, seen) ==
    LET next == { r.successor_id : r \in { x \in Range(relationships) :
                      x.predecessor_id \in frontier /\ x.successor_id \in ActIds } }
    IN  IF next \subseteq seen THEN seen
        ELSE ReachableFrom(next \ seen, seen \cup next)

HasCycle == \E a \in ActIds : a \in ReachableFrom({a}, {})

\* C1: on every activity graph, cyclic ones included, the forward and the
\* backward visit end without failure, a repeated visit being a no-op: no
\* pass raises, and each activity's dates are computed at most once per pass.
C1_VisitsTolerateCycles ==
    CpmDone =>
        /\ ~cpm.error
        /\ \A a \in ActIds : cpm.fcount[a] <= 1 /\ cpm.bcount[a] <= 1

C3_CriticalIffTotalFloatNotPositive ==
    CpmFloatStepRan =>
        \A a \in ActIds :
            HasAllFourDates(activities[a]) =>
                (activities[a].is_critical <=> activities[a].total_float <= 0)

----------------------------------------------------------------------------
(* Comparator: analysis_engine.py, with the float helpers of utils.py       *)

NOT_STARTED == "TK_NotStart"

IN_PROGRESS == "TK_Active"

COMPLETED == "TK_Complete"

\* The tasks of a project file in file order.
TaskOrder == <<"A", "B">>

TaskIds == Range(TaskOrder)

D(n) == n * Day

\* _convert_task_to_activity followed by Activity.__post_init__.  Hours are
\* converted to days by / 8; the files hold multiples of 8 hours.
ConvertTaskToActivity(task) ==
    LET status == IF task.status = "TK_Complete" THEN COMPLETED
                  ELSE IF task.status = "TK_Active" THEN IN_PROGRESS
                  ELSE NOT_STARTED
        original_duration == task.target_drtn_hr_cnt \div 8
        total_float == task.total_float_hr_cnt \div 8
    IN  [ original_duration |-> original_duration,
          start_date        |-> task.early_start_date,
          finish_date       |-> task.early_end_date,
          actual_finish     |-> task.act_end_date,
          total_float       |-> total_float,
          free_float        |-> 0,
          status            |-> status,
          percent_complete  |-> task.phys_complete_pct,
          predecessors      |-> << >>,
          successors        |-> << >>,
          is_critical       |-> (total_float <= 0),
          is_milestone      |-> (original_duration = 0) ]

\* _update_relationships: the id lists of the activities present, no id twice.
RECURSIVE UpdateRelationships(_, _, _)
UpdateRelationships(acts, rels, i) ==
    IF i > Len(rels) THEN acts
    ELSE LET pred_id == rels[i].predecessor
             succ_id == rels[i].successor
             a1 == IF pred_id \in DOMAIN acts
                      /\ succ_id \notin Range(acts[pred_id].successors)
                   THEN [acts EXCEPT ![pred_id].successors = Append(@, succ_id)]
                   ELSE acts
             a2 == IF succ_id \in DOMAIN a1
                      /\ pred_id \notin Range(a1[succ_id].predecessors)
                   THEN [a1 EXCEPT ![succ_id].predecessors = Append(@, pred_id)]
                   ELSE a1
         IN  UpdateRelationships(a2, rels, i + 1)

\* FloatCalculator: the running minimum over the successors that have a start.
RECURSIVE EarliestSuccessorStart(_, _, _, _)
EarliestSuccessorStart(acts, succs, i, earliest) ==
    IF i > Len(succs) THEN earliest
    ELSE IF succs[i] \in DOMAIN acts /\ IsSet(acts[succs[i]].start_date)
         THEN EarliestSuccessorStart(acts, succs, i + 1,
                  IF IsSet(earliest)
                  THEN Some(Min2(Val(earliest), Val(acts[succs[i]].start_date)))
                  ELSE acts[succs[i]].start_date)
         ELSE EarliestSuccessorStart(acts, succs, i + 1, earliest)

\* calculate_total_float if it measured to the first successor that has a
\* start instead of the earliest one.
CalculateTotalFloat_FirstSuccessor(activity, project_finish, acts) ==
    IF ~IsSet(activity.finish_date) THEN 0
    ELSE IF activity.successors = << >>
         THEN Days(project_finish - Val(activity.finish_date))
         ELSE LET started == SelectSeq(activity.successors, LAMBDA succ_id :
                                 succ_id \in DOMAIN acts
                                 /\ IsSet(acts[succ_id].start_date))
              IN  IF started = << >>
                  THEN Days(project_finish - Val(activity.finish_date))
                  ELSE Days(Min2(project_finish, Val(acts[started[1]].start_date))
                            - Val(activity.finish_date))

\* FloatCalculator.calculate_total_float
CalculateTotalFloat(activity, project_finish, acts) ==
    IF ~IsSet(activity.finish_date) THEN 0
    ELSE IF activity.successors = << >>
         THEN Days(project_finish - Val(activity.finish_date))
         ELSE Days(Val(EarliestSuccessorStart(acts, activity.successors, 1,
                                              Some(project_finish)))
                   - Val(activity.finish_date))

\* FloatCalculator.calculate_free_float
CalculateFreeFloat(activity, acts) ==
    IF ~IsSet(activity.finish_date) \/ activity.successors = << >> THEN 0
    ELSE LET earliest == EarliestSuccessorStart(acts, activity.successors, 1, None)
         IN  IF IsSet(earliest)
             THEN Days(Val(earliest) - Val(activity.finish_date))
             ELSE 0

\* _calculate_float_values: the activities are updated in dictionary order;
\* the calculators read dates and id lists only, which the loop leaves alone.
CalculateFloatValues(acts, project_finish) ==
    [a \in DOMAIN acts |->
        [acts[a] EXCEPT
            !.total_float = CalculateTotalFloat(acts[a], project_finish, acts),
            !.free_float = CalculateFreeFloat(acts[a], acts)]]

\* config analysis.critical_path_threshold, default 0
CriticalPathThreshold == 0

\* CriticalPathAnalyzer.find_critical_path: the flag is set, never cleared.
FindCriticalPath(acts, float_threshold) ==
    [a \in DOMAIN acts |->
        IF acts[a].total_float <= float_threshold
        THEN [acts[a] EXCEPT !.is_critical = TRUE] ELSE acts[a]]

\* parse_xer_file, lines 65-101: the Schedule built from a project file.
ParseXerFile(xer) ==
    LET converted == [a \in DOMAIN xer.tasks |-> ConvertTaskToActivity(xer.tasks[a])]
        linked == UpdateRelationships(converted, xer.task_relationships, 1)
        floated == CalculateFloatValues(linked, xer.scd_end_date)
    IN  [ data_date   |-> xer.last_recalc_date,
          start_date  |-> xer.plan_start_date,
          finish_date |-> xer.scd_end_date,
          activities  |-> FindCriticalPath(floated, CriticalPathThreshold),
          relationships |-> xer.task_relationships ]

\* A variant of _calculate_activity_delay that compares the forecast finish
\* for completed activities too.
CalculateActivityDelay_ForecastOnly(baseline_act, current_act) ==
    IF IsSet(current_act.finish_date) /\ IsSet(baseline_act.finish_date)
    THEN Days(Val(current_act.finish_date) - Val(baseline_act.finish_date))
    ELSE 0

\* A variant of _calculate_activity_delay that reports the size of the
\* difference without its sign.
CalculateActivityDelay_Unsigned(baseline_act, current_act) ==
    IF current_act.status # COMPLETED
       /\ IsSet(current_act.finish_date) /\ IsSet(baseline_act.finish_date)
    THEN IF Val(current_act.finish_date) >= Val(baseline_act.finish_date)
         THEN Days(Val(current_act.finish_date) - Val(baseline_act.finish_date))
         ELSE Days(Val(baseline_act.finish_date) - Val(current_act.finish_date))
    ELSE IF IsSet(current_act.actual_finish) /\ IsSet(baseline_act.finish_date)
            /\ current_act.status = COMPLETED
    THEN Days(Val(current_act.actual_finish) - Val(baseline_act.finish_date))
    ELSE 0

\* _calculate_activity_delay
CalculateActivityDelay(baseline_act, current_act) ==
    IF current_act.status = COMPLETED
       /\ IsSet(current_act.actual_finish) /\ IsSet(baseline_act.finish_date)
    THEN Days(Val(current_act.actual_finish) - Val(baseline_act.finish_date))
    ELSE IF current_act.status = IN_PROGRESS
            /\ IsSet(current_act.finish_date) /\ IsSet(baseline_act.finish_date)
    THEN Days(Val(current_act.finish_date) - Val(baseline_act.finish_date))
    ELSE IF current_act.status = NOT_STARTED
            /\ IsSet(current_act.finish_date) /\ IsSet(baseline_act.finish_date)
    THEN Days(Val(current_act.finish_date) - Val(baseline_act.finish_date))
    ELSE 0

\* _calculate_milestone_delay if it compared the planned finishes only.
CalculateMilestoneDelay_ForecastOnly(baseline_act, current_act) ==
    IF IsSet(current_act.finish_date) /\ IsSet(baseline_act.finish_date)
    THEN Days(Val(current_act.finish_date) - Val(baseline_act.finish_date))
    ELSE 0

\* _calculate_milestone_delay
CalculateMilestoneDelay(baseline_act, current_act) ==
    IF IsSet(current_act.actual_finish)
    THEN IF IsSet(baseline_act.finish_date)
         THEN Days(Val(current_act.actual_finish) - Val(baseline_act.finish_date))
         ELSE 0
    ELSE IF IsSet(current_act.finish_date) /\ IsSet(baseline_act.finish_date)
         THEN Days(Val(current_act.finish_date) - Val(baseline_act.finish_date))
         ELSE 0

\* The sum of f[a] over the ids of the list ids[i..].
RECURSIVE SumOver(_, _, _)
SumOver(ids, f, i) ==
    IF i > Len(ids) THEN 0 ELSE f[ids[i]] + SumOver(ids, f, i + 1)

\* The ids of a dictionary in insertion (file) order.
KeysInOrder(acts) == SelectSeq(TaskOrder, LAMBDA a : a \in DOMAIN acts)

\* A ratio num/den of the float the code returns, den > 0.
Ratio(num, den) == [num |-> num, den |-> den]

\* A variant of _calculate_spi that averages the percentages without
\* weighting them by the baseline durations.
CalculateSpi_Unweighted(baseline, current) ==
    LET ids == SelectSeq(KeysInOrder(baseline.activities),
                         LAMBDA a : a \in DOMAIN current.activities)
        pct == [a \in Range(ids) |-> current.activities[a].percent_complete]
    IN  IF Len(ids) > 0
        THEN Ratio(SumOver(ids, pct, 1), 100 * Len(ids))
        ELSE Ratio(1, 1)

\* A variant of _calculate_spi that divides the planned value by the earned
\* value.
CalculateSpi_PlannedOverEarned(baseline, current) ==
    LET ids == SelectSeq(KeysInOrder(baseline.activities),
                         LAMBDA a : a \in DOMAIN current.activities)
        planned == [a \in Range(ids) |-> baseline.activities[a].original_duration]
        earned100 == [a \in Range(ids) |->
                        current.activities[a].percent_complete * planned[a]]
    IN  IF SumOver(ids, earned100, 1) > 0
        THEN Ratio(100 * SumOver(ids, planned, 1), SumOver(ids, earned100, 1))
        ELSE Ratio(1, 1)

\* _calculate_spi: earned = sum of percent_complete / 100 * planned over the
\* baseline activities also in the current schedule.
CalculateSpi(baseline, current) ==
    LET ids == SelectSeq(KeysInOrder(baseline.activities),
                         LAMBDA a : a \in DOMAIN current.activities)
        planned == [a \in Range(ids) |-> baseline.activities[a].original_duration]
        earned100 == [a \in Range(ids) |->
                        current.activities[a].percent_complete * planned[a]]
        total_planned_duration == SumOver(ids, planned, 1)
    IN  IF total_planned_duration > 0
        THEN Ratio(SumOver(ids, earned100, 1), 100 * total_planned_duration)
        ELSE Ratio(1, 1)

\* _calculate_completion_variance, in percentage points.  The division by
\* total_project_days raises ZeroDivisionError when the baseline finish is
\* after its start by less than a day.
CalculateCompletionVariance(baseline, current) ==
    IF baseline.finish_date <= baseline.start_date
    THEN [raised |-> "none", value |-> Ratio(0, 1)]
    ELSE LET total_project_days == Days(baseline.finish_date - baseline.start_date)
             elapsed_days == Days(current.data_date - baseline.start_date)
             all == KeysInOrder(baseline.activities)
             common == SelectSeq(all, LAMBDA a : a \in DOMAIN current.activities)
             dur == [a \in Range(all) |-> baseline.activities[a].original_duration]
             earned100 == [a \in Range(common) |->
                             current.activities[a].percent_complete * dur[a]]
             total_baseline_duration == SumOver(all, dur, 1)
             total_earned100 == SumOver(common, earned100, 1)
         IN  IF total_project_days = 0
             THEN [raised |-> "ZeroDivisionError", value |-> Ratio(0, 1)]
             ELSE IF total_baseline_duration > 0
             THEN \* earned / baseline * 100 - elapsed / total * 100
                  [raised |-> "none",
                   value |-> Ratio(total_earned100 * total_project_days
                                   - 100 * elapsed_days * total_baseline_duration,
                                   total_baseline_duration * total_project_days)]
             ELSE [raised |-> "none",
                   value |-> Ratio(0 - 100 * elapsed_days, total_project_days)]

Abs(x) == IF x < 0 THEN 0 - x ELSE x

\* compare_schedules, lines 220-259: the loop over common_ids, a set, which
\* is walked in the order order gives its members.
CompareActivities(baseline, current, order) ==
    LET common_ids == SelectSeq(order, LAMBDA a :
                          a \in DOMAIN baseline.activities
                          /\ a \in DOMAIN current.activities)
        b(a) == baseline.activities[a]
        c(a) == current.activities[a]
        ms == { a \in Range(common_ids) :
                  b(a).is_milestone /\ CalculateMilestoneDelay(b(a), c(a)) # 0 }
        fc == { a \in Range(common_ids) :
                  10 * Abs(c(a).total_float - b(a).total_float) > 1 }
    IN  [ delayed_activities |->
              SelectSeq(common_ids, LAMBDA a : CalculateActivityDelay(b(a), c(a)) > 0),
          accelerated_activities |->
              SelectSeq(common_ids, LAMBDA a : CalculateActivityDelay(b(a), c(a)) < 0),
          new_critical_activities |->
              SelectSeq(common_ids, LAMBDA a : ~b(a).is_critical /\ c(a).is_critical),
          removed_critical_activities |->
              SelectSeq(common_ids, LAMBDA a : b(a).is_critical /\ ~c(a).is_critical),
          float_changes |-> [a \in fc |-> c(a).total_float - b(a).total_float],
          milestone_delays |-> [a \in ms |-> CalculateMilestoneDelay(b(a), c(a))] ]

\* A variant of compare_schedules that marks the delayed activities of the
\* current schedule critical while it compares.
CompareSchedules_MarksDelayed(eng, order) ==
    IF ~IsSet(eng.baseline_schedule) \/ ~IsSet(eng.current_schedule)
    THEN [engine |-> eng, raised |-> "ValueError", result |-> None]
    ELSE LET baseline == Val(eng.baseline_schedule)
             current == Val(eng.current_schedule)
             acts == CompareActivities(baseline, current, order)
             marked == [a \in DOMAIN current.activities |->
                          IF a \in Range(acts.delayed_activities)
                          THEN [current.activities[a] EXCEPT !.is_critical = TRUE]
                          ELSE current.activities[a]]
         IN  [engine |-> [eng EXCEPT !.current_schedule =
                             Some([current EXCEPT !.activities = marked])],
              raised |-> "none",
              result |-> Some(
                [ delayed_activities |-> acts.delayed_activities,
                  accelerated_activities |-> acts.accelerated_activities,
                  new_critical_activities |-> acts.new_critical_activities,
                  removed_critical_activities |-> acts.removed_critical_activities,
                  float_changes |-> acts.float_changes,
                  milestone_delays |-> acts.milestone_delays,
                  overall_delay |->
                      Days(current.finish_date - baseline.finish_date),
                  spi |-> CalculateSpi(baseline, current),
                  completion_variance |->
                      CalculateCompletionVariance(baseline, current).value ])]

\* compare_schedules: the engine after the call, the exception raised if
\* any, and the ComparisonResult returned.  The call assigns no field of the
\* engine or of its schedules.
CompareSchedules(eng, order) ==
    IF ~IsSet(eng.baseline_schedule) \/ ~IsSet(eng.current_schedule)
    THEN [engine |-> eng, raised |-> "ValueError", result |-> None]
    ELSE LET baseline == Val(eng.baseline_schedule)
             current == Val(eng.current_schedule)
             acts == CompareActivities(baseline, current, order)
             cv == CalculateCompletionVariance(baseline, current)
         IN  IF cv.raised # "none"
             THEN [engine |-> eng, raised |-> cv.raised, result |-> None]
             ELSE [engine |-> eng, raised |-> "none",
                   result |-> Some(
                     [ delayed_activities |-> acts.delayed_activities,
                       accelerated_activities |-> acts.accelerated_activities,
                       new_critical_activities |-> acts.new_critical_activities,
                       removed_critical_activities |-> acts.removed_critical_activities,
                       float_changes |-> acts.float_changes,
                       milestone_delays |-> acts.milestone_delays,
                       overall_delay |->
                           Days(current.finish_date - baseline.finish_date),
                       spi |-> CalculateSpi(baseline, current),
                       completion_variance |-> cv.value ])]

\* The project files the engine is given.  Task A is a ten-day activity whose
\* status, forecast finish and actual finish vary; task B, when present, is
\* the finish milestone that follows A.
TaskProgress ==
    { <<"TK_NotStart", None>>, <<"TK_Active", None>>,
      <<"TK_Complete", None>>, <<"TK_Complete", Some(D(16))>> }

EarlyEndDates == {None, Some(D(10)), Some(D(10) + HalfDay), Some(D(16))}

MilestoneDates == {D(20), D(22)}

PhysCompletePct(status) ==
    IF status = "TK_Complete" THEN 100 ELSE IF status = "TK_Active" THEN 50 ELSE 0

\* A task that has not started still carries two days of stored float.
StoredFloatHours(status) == IF status = "TK_NotStart" THEN 16 ELSE 0

TaskA(status, early_end, act_end) ==
    [ status |-> status, target_drtn_hr_cnt |-> 80,
      early_start_date |-> Some(0), early_end_date |-> early_end,
      act_end_date |-> act_end, total_float_hr_cnt |-> StoredFloatHours(status),
      phys_complete_pct |-> PhysCompletePct(status) ]

TaskB(date) ==
    [ status |-> "TK_NotStart", target_drtn_hr_cnt |-> 0,
      early_start_date |-> Some(date), early_end_date |-> Some(date),
      act_end_date |-> None, total_float_hr_cnt |-> 0,
      phys_complete_pct |-> 0 ]

XerProject(tasks, rels, scd_end) ==
    [ last_recalc_date |-> D(5), plan_start_date |-> 0, scd_end_date |-> scd_end,
      tasks |-> tasks, task_relationships |-> rels ]

\* Task B as a twenty-day closing activity, a quarter done, that starts while
\* A is under way.
ClosingTask(date) ==
    [ status |-> "TK_Active", target_drtn_hr_cnt |-> 160,
      early_start_date |-> Some(D(2)), early_end_date |-> Some(date),
      act_end_date |-> None, total_float_hr_cnt |-> 0,
      phys_complete_pct |-> 25 ]

\* Milestone B reached: planned for one day, actually finished on another.
FinishedMilestone(planned, actual) ==
    [ status |-> "TK_Complete", target_drtn_hr_cnt |-> 0,
      early_start_date |-> Some(planned), early_end_date |-> Some(planned),
      act_end_date |-> Some(actual), total_float_hr_cnt |-> 0,
      phys_complete_pct |-> 100 ]

XerFiles ==
    LET as == { TaskA(p[1], e, p[2]) : p \in TaskProgress, e \in EarlyEndDates }
        active == { a \in as : a.status = "TK_Active" }
        link == <<[predecessor |-> "A", successor |-> "B"]>>
    IN  { XerProject([t \in {"A"} |-> a], << >>, D(20)) : a \in as }
        \cup { XerProject([t \in {"A", "B"} |-> IF t = "A" THEN a ELSE TaskB(m)],
                          link, m) : a \in as, m \in MilestoneDates }
        \cup { XerProject([t \in {"A", "B"} |->
                              IF t = "A" THEN a ELSE ClosingTask(D(22))],
                          link, D(22)) : a \in active }
        \cup { XerProject([t \in {"B"} |-> TaskB(m)], << >>, m) :
               m \in MilestoneDates }
        \cup { XerProject([t \in {"B"} |-> FinishedMilestone(D(20), D(22))],
                          << >>, D(22)) }

\* The orders in which a process may walk a set of task ids.
HashOrders == { o \in [1..Len(TaskOrder) -> TaskIds] : Range(o) = TaskIds }

NoSchedules == [baseline_schedule |-> None, current_schedule |-> None]

InitCompare ==
    /\ pc = "engine"
    /\ CpmIdle /\ DelayIdle /\ WindowIdle
    /\ engine = NoSchedules
    /\ hashOrder \in HashOrders
    /\ comparison = None
    /\ previous = None
    /\ outcome = "none"

\* The Schedule parse_xer_file builds from each project file.
ParsedFiles == [project \in XerFiles |-> ParseXerFile(project)]

\* What Xer.reader returns: the projects of a file, which may hold none.
XerReads == { [projects |-> <<project>>] : project \in XerFiles }
                \cup { [projects |-> << >>] }

\* parse_xer_file(file_path, schedule_type): the schedule parsed from the
\* first project replaces the engine's baseline or current schedule; a file
\* without projects raises ScheduleError and stores nothing.
ParseXerFileCall(eng, xer, schedule_type) ==
    IF xer.projects = << >>
    THEN [engine |-> eng, raised |-> "ScheduleError"]
    ELSE LET schedule == ParsedFiles[xer.projects[1]]
         IN  [engine |-> IF schedule_type = "baseline"
                         THEN [eng EXCEPT !.baseline_schedule = Some(schedule)]
                         ELSE [eng EXCEPT !.current_schedule = Some(schedule)],
              raised |-> "none"]

\* A parse_xer_file call.  comparison and previous describe calls on the
\* schedules now loaded, so a load forgets them.
LoadSchedule ==
    /\ pc = "engine"
    /\ \E xer \in XerReads, schedule_type \in {"baseline", "current"} :
          LET call == ParseXerFileCall(engine, xer, schedule_type)
          IN  /\ engine' = call.engine
              /\ outcome' = IF call.raised = "none" THEN "ok" ELSE call.raised
    /\ comparison' = None
    /\ previous' = None
    /\ UNCHANGED <<pc, cpmVars, hashOrder, delayVars, windowVars>>

\* A variant of the compare_schedules call that reports success whatever
\* the handler raised.
Compare_ReportsSuccess ==
    /\ pc = "engine"
    /\ LET call == CompareSchedules(engine, hashOrder)
       IN  /\ engine' = call.engine
           /\ outcome' = "ok"
           /\ comparison' = call.result
           /\ previous' = IF call.raised = "none" THEN comparison ELSE None
    /\ UNCHANGED <<pc, cpmVars, hashOrder, delayVars, windowVars>>

\* compare_schedules()
Compare ==
    /\ pc = "engine"
    /\ LET call == CompareSchedules(engine, hashOrder)
       IN  /\ engine' = call.engine
           /\ outcome' = IF call.raised = "none" THEN "ok" ELSE call.raised
           /\ comparison' = call.result
           /\ previous' = IF call.raised = "none" THEN comparison ELSE None
    /\ UNCHANGED <<pc, cpmVars, hashOrder, delayVars, windowVars>>

NextCompare == LoadSchedule \/ Compare

SpecCompare == InitCompare /\ [][NextCompare]_vars

----------------------------------------------------------------------------
(* Claims about the Comparator                                              *)

BothLoaded == IsSet(engine.baseline_schedule) /\ IsSet(engine.current_schedule)

Compared == BothLoaded /\ IsSet(comparison)

Baseline == Val(engine.baseline_schedule)

Current == Val(engine.current_schedule)

CommonIds == DOMAIN Baseline.activities \cap DOMAIN Current.activities

\* The dates the stated delay of a pair is computed from are both there.
DelayDatesPresent(b, c) ==
    /\ IsSet(b.finish_date)
    /\ IF c.status = COMPLETED THEN IsSet(c.actual_finish) ELSE IsSet(c.finish_date)

\* The delay as stated: actual finish against the baseline's planned finish
\* for a completed activity, planned finish against planned finish otherwise.
StatedDelay(b, c) ==
    IF c.status = COMPLETED
    THEN Days(Val(c.actual_finish) - Val(b.finish_date))
    ELSE Days(Val(c.finish_date) - Val(b.finish_date))

\* C5: for every activity in both schedules whose compared dates are present,
\* the delay compare_schedules computes is days(actual finish - baseline
\* finish) for a completed activity and days(planned finish - baseline finish)
\* otherwise, and the activity is among the delayed activities iff that value
\* is positive, among the accelerated ones iff it is negative, and in neither
\* list iff it is zero.
C5_DelayByStatusAndListing ==
    Compared =>
        \A a \in CommonIds :
            LET b == Baseline.activities[a]
                c == Current.activities[a]
                delayed == a \in Range(Val(comparison).delayed_activities)
                accelerated == a \in Range(Val(comparison).accelerated_activities)
            IN  /\ ~(delayed /\ accelerated)
                /\ DelayDatesPresent(b, c) =>
                      /\ CalculateActivityDelay(b, c) = StatedDelay(b, c)
                      /\ delayed <=> StatedDelay(b, c) > 0
                      /\ accelerated <=> StatedDelay(b, c) < 0
                      /\ (~delayed /\ ~accelerated) <=> StatedDelay(b, c) = 0

\* A compared pair where a completed activity's actual finish is six days
\* after the baseline's planned finish although its forecast did not move.
C5_Witness ==
    /\ Compared
    /\ "A" \in CommonIds
    /\ Current.activities["A"].status = COMPLETED
    /\ DelayDatesPresent(Baseline.activities["A"], Current.activities["A"])
    /\ Current.activities["A"].finish_date = Baseline.activities["A"].finish_date
    /\ StatedDelay(Baseline.activities["A"], Current.activities["A"]) = 6
    /\ "A" \in Range(Val(comparison).delayed_activities)

\* C6 as stated: for every pair of records of the same activity, the delay
\* with the roles of baseline and current swapped is the negation of the
\* delay, whatever the statuses and whichever dates are present.
C6_SwapNegatesDelay ==
    Compared =>
        \A a \in CommonIds :
            CalculateActivityDelay(Current.activities[a], Baseline.activities[a])
                = 0 - CalculateActivityDelay(Baseline.activities[a],
                                             Current.activities[a])

\* Two planned finish dates that are absent or a whole number of days apart.
WholeDaysApart(b, c) ==
    (IsSet(b.finish_date) /\ IsSet(c.finish_date))
        => (Val(c.finish_date) - Val(b.finish_date)) % Day = 0

\* C6: when neither record of an activity is completed and the two planned
\* finish dates are absent or a whole number of days apart, swapping the
\* roles of baseline and current negates the delay.
C6_SwapNegatesWholeDayForecastDelay ==
    Compared =>
        \A a \in CommonIds :
            LET b == Baseline.activities[a]
                c == Current.activities[a]
            IN  (b.status # COMPLETED /\ c.status # COMPLETED /\ WholeDaysApart(b, c))
                    => CalculateActivityDelay(c, b) = 0 - CalculateActivityDelay(b, c)

\* A compared pair of records, neither completed, whose planned finishes are
\* six whole days apart.
C6_Witness ==
    /\ Compared
    /\ "A" \in CommonIds
    /\ Baseline.activities["A"].status # COMPLETED
    /\ Current.activities["A"].status # COMPLETED
    /\ WholeDaysApart(Baseline.activities["A"], Current.activities["A"])
    /\ CalculateActivityDelay(Baseline.activities["A"], Current.activities["A"]) = 6
    /\ CalculateActivityDelay(Current.activities["A"], Baseline.activities["A"]) = 0 - 6

\* C7: a compare_schedules call that follows another on the same loaded
\* schedules returns a result with the same contents.
C7_CompareTwiceSameResult ==
    (IsSet(previous) /\ IsSet(comparison)) => previous = comparison

\* Two calls in succession on schedules in which an activity is delayed, a
\* milestone slipped and floats changed.
C7_Witness ==
    /\ IsSet(previous) /\ IsSet(comparison)
    /\ Val(comparison).delayed_activities # << >>
    /\ DOMAIN Val(comparison).milestone_delays # {}
    /\ DOMAIN Val(comparison).float_changes # {}
    /\ Val(comparison).overall_delay # 0

----------------------------------------------------------------------------
(* Concurrent delays: AnalysisEngine.identify_concurrent_delays             *)

MaxEvents == 3

\* The start and end dates of the delay events: an event may have no end
\* date, and a forecast finish may lie before the baseline start.
EventStarts == {D(0), D(3), D(6)}

EventEnds == {None, Some(D(2)), Some(D(4)), Some(D(9))}

\* The DelayEvent identify_delay_events builds.
NewDelayEvent(start, end) ==
    [start_date |-> start, end_date |-> end, is_concurrent |-> FALSE]

\* sorted(delay_events, key=start_date): the positions of the events in
\* ascending start date, events with equal start dates in list order.
RECURSIVE SortedDelays(_, _)
SortedDelays(events, n) ==
    IF n = 0 THEN << >>
    ELSE LET order == SortedDelays(events, n - 1)
             k == Cardinality({ p \in 1..Len(order) :
                      events[order[p]].start_date <= events[n].start_date })
         IN  SubSeq(order, 1, k) \o <<n>> \o SubSeq(order, k + 1, Len(order))

\* "delay not in concurrent_delays", by the equality of the dataclass.
InConcurrent(events, concurrent, d) ==
    \E k \in Range(concurrent) : events[k] = events[d]

\* The body of the inner loop for the pair at positions p < q.
FlagPair(st, d1, d2) ==
    IF IsSet(st.events[d1].end_date)
       /\ Val(st.events[d1].end_date) >= st.events[d2].start_date
    THEN LET ev == [st.events EXCEPT ![d1].is_concurrent = TRUE,
                                     ![d2].is_concurrent = TRUE]
             c1 == IF InConcurrent(ev, st.concurrent, d1) THEN st.concurrent
                   ELSE Append(st.concurrent, d1)
             c2 == IF InConcurrent(ev, c1, d2) THEN c1 ELSE Append(c1, d2)
         IN  [events |-> ev, concurrent |-> c2]
    ELSE st

\* The two loops over the sorted list, from the pair at positions (p, q) on.
RECURSIVE ScanPairs(_, _, _, _)
ScanPairs(st, order, p, q) ==
    IF p > Len(order) THEN st
    ELSE IF q > Len(order) THEN ScanPairs(st, order, p + 1, p + 2)
    ELSE ScanPairs(FlagPair(st, order[p], order[q]), order, p, q + 1)

\* identify_concurrent_delays: the events after the call and the positions of
\* the events it returns.
IdentifyConcurrentDelaysOf(events) ==
    ScanPairs([events |-> events, concurrent |-> << >>],
              SortedDelays(events, Len(events)), 1, 2)

InitDelays ==
    /\ pc = "events"
    /\ CpmIdle /\ EngineIdle /\ WindowIdle
    /\ delay_events = << >>
    /\ concurrent_delays = << >>

\* identify_delay_events appends an event, not yet concurrent, to its list.
AppendDelayEvent ==
    /\ pc = "events"
    /\ Len(delay_events) < MaxEvents
    /\ \E start \in EventStarts, end \in EventEnds :
          delay_events' = Append(delay_events, NewDelayEvent(start, end))
    /\ UNCHANGED <<pc, concurrent_delays, cpmVars, engineVars, windowVars>>

\* identify_concurrent_delays(delay_events), on a fresh list or again on a
\* list it has flagged.
IdentifyConcurrentDelays ==
    /\ pc \in {"events", "flagged"}
    /\ LET call == IdentifyConcurrentDelaysOf(delay_events)
       IN  /\ delay_events' = call.events
           /\ concurrent_delays' = call.concurrent
    /\ pc' = "flagged"
    /\ UNCHANGED <<cpmVars, engineVars, windowVars>>

NextDelays == AppendDelayEvent \/ IdentifyConcurrentDelays

SpecDelays == InitDelays /\ [][NextDelays]_vars

----------------------------------------------------------------------------
(* Claims about concurrent delays                                           *)

\* The interval [start_date, end_date] of an event holds some date: an event
\* without an end date is still running.
HasInterval(e) == IsSet(e.end_date) => e.start_date <= Val(e.end_date)

\* The intervals of two events share a date.
Overlap(e1, e2) ==
    /\ HasInterval(e1) /\ HasInterval(e2)
    /\ IsSet(e1.end_date) => e2.start_date <= Val(e1.end_date)
    /\ IsSet(e2.end_date) => e1.start_date <= Val(e2.end_date)

\* C8 as stated: after identify_concurrent_delays ran on events that were all
\* unflagged, an event is flagged iff its interval overlaps the interval of
\* another event of the list (so no event is flagged when none overlap).
C8_FlaggedIffOverlapsAnother ==
    pc = "flagged" =>
        \A i \in DOMAIN delay_events :
            delay_events[i].is_concurrent
                <=> \E j \in DOMAIN delay_events \ {i} :
                        Overlap(delay_events[i], delay_events[j])

\* The last clause of C8: a step never clears a flag that is set.
C8_FlagNeverCleared ==
    [][\A i \in DOMAIN delay_events :
          delay_events[i].is_concurrent
              => (i \in DOMAIN delay_events' /\ delay_events'[i].is_concurrent)]_vars

\* What the code flags: an event is flagged iff, in start order, an earlier
\* event's end date is present and on or after a later event's start date,
\* and the event is one of the two.
C8_FlaggedIffEndReachesLaterStart ==
    pc = "flagged" =>
        LET order == SortedDelays(delay_events, Len(delay_events))
            Hit(p, q) == /\ IsSet(delay_events[order[p]].end_date)
                         /\ Val(delay_events[order[p]].end_date)
                                >= delay_events[order[q]].start_date
        IN  \A r \in DOMAIN order :
                delay_events[order[r]].is_concurrent
                    <=> \/ \E q \in (r + 1)..Len(order) : Hit(r, q)
                        \/ \E p \in 1..(r - 1) : Hit(p, r)

----------------------------------------------------------------------------
(* Forensic windows: forensic_windows.py and DateUtils.get_month_windows    *)

\* The calendar years the analysed horizons lie in; time 0 is the first
\* instant of the first of them.
Years == {2023, 2024}

EpochYear == CHOOSE y \in Years : \A z \in Years : y <= z

IsLeap(year) == (year % 4 = 0 /\ year % 100 # 0) \/ year % 400 = 0

\* calendar.monthrange(year, month)[1]
DaysInMonth(year, month) ==
    IF month = 2 THEN (IF IsLeap(year) THEN 29 ELSE 28)
    ELSE IF month \in {4, 6, 9, 11} THEN 30 ELSE 31

RECURSIVE DaysBeforeMonth(_, _)
DaysBeforeMonth(year, month) ==
    IF month = 1 THEN 0
    ELSE DaysBeforeMonth(year, month - 1) + DaysInMonth(year, month - 1)

RECURSIVE DaysBeforeYear(_)
DaysBeforeYear(year) ==
    IF year <= EpochYear THEN 0
    ELSE DaysBeforeYear(year - 1) + DaysBeforeMonth(year - 1, 12)
             + DaysInMonth(year - 1, 12)

\* datetime(year, month, day, hour, minute, second)
DateTime(year, month, day, hour, minute, second) ==
    (DaysBeforeYear(year) + DaysBeforeMonth(year, month) + day - 1) * Day
        + (hour * 60 + minute) * 60 + second

\* current_date.year and current_date.month
YearOf(t) ==
    CHOOSE y \in Years :
        DateTime(y, 1, 1, 0, 0, 0) <= t /\ t < DateTime(y + 1, 1, 1, 0, 0, 0)

MonthOf(t) ==
    CHOOSE m \in 1..12 :
        /\ DateTime(YearOf(t), m, 1, 0, 0, 0) <= t
        /\ t <= DateTime(YearOf(t), m, DaysInMonth(YearOf(t), m), 23, 59, 59)

\* ForensicWindow(window_id, start_date, end_date); the id is the window's
\* number and the date it is formatted from.
NewWindow(window_num, start_date, end_date) ==
    [ window_id |-> <<window_num, start_date>>,
      start_date |-> start_date, end_date |-> end_date ]

\* A variant of the loop of create_custom_windows that does not clip the
\* last window to end_date.
RECURSIVE CustomWindowLoop_Unclipped(_, _, _, _)
CustomWindowLoop_Unclipped(current_date, end_date, period_days, made) ==
    IF current_date < end_date
    THEN LET window_end == current_date + period_days * Day
         IN  CustomWindowLoop_Unclipped(window_end, end_date, period_days,
                 Append(made, NewWindow(Len(made) + 1, current_date, window_end)))
    ELSE made

\* The while loop of create_custom_windows.
RECURSIVE CustomWindowLoop(_, _, _, _)
CustomWindowLoop(current_date, end_date, period_days, made) ==
    IF current_date < end_date
    THEN LET window_end == Min2(current_date + period_days * Day, end_date)
         IN  CustomWindowLoop(window_end, end_date, period_days,
                 Append(made, NewWindow(Len(made) + 1, current_date, window_end)))
    ELSE made

\* create_custom_windows(start_date, end_date, period_days)
CreateCustomWindowsOf(start_date, end_date, period_days) ==
    CustomWindowLoop(start_date, end_date, period_days, << >>)

\* DateUtils.get_month_windows: the while loop.
RECURSIVE MonthWindowLoop(_, _, _)
MonthWindowLoop(current_date, end_date, made) ==
    IF current_date < end_date
    THEN LET year == YearOf(current_date)
             month == MonthOf(current_date)
             last_day == DaysInMonth(year, month)
             month_end == DateTime(year, month, last_day, 23, 59, 59)
             window_end == Min2(month_end, end_date)
             next == IF month = 12 THEN DateTime(year + 1, 1, 1, 0, 0, 0)
                     ELSE DateTime(year, month + 1, 1, 0, 0, 0)
         IN  MonthWindowLoop(next, end_date,
                             Append(made, <<current_date, window_end>>))
    ELSE made

GetMonthWindows(start_date, end_date) ==
    MonthWindowLoop(start_date, end_date, << >>)

\* create_monthly_windows(start_date, end_date)
CreateMonthlyWindowsOf(start_date, end_date) ==
    LET month_periods == GetMonthWindows(start_date, end_date)
    IN  [i \in DOMAIN month_periods |->
            NewWindow(i, month_periods[i][1], month_periods[i][2])]

\* The dates windows are asked for: starts, middles and last seconds of
\* months, across a turn of the year and a leap February.
WindowDates ==
    { DateTime(2023, 12, 15, 0, 0, 0),   DateTime(2023, 12, 31, 23, 59, 59),
      DateTime(2024, 1, 1, 0, 0, 0),     DateTime(2024, 1, 15, 12, 0, 0),
      DateTime(2024, 1, 31, 23, 59, 59), DateTime(2024, 2, 1, 0, 0, 0),
      DateTime(2024, 2, 14, 0, 0, 0),    DateTime(2024, 2, 29, 23, 59, 59),
      DateTime(2024, 3, 1, 0, 0, 0),     DateTime(2024, 3, 10, 8, 30, 0) }

\* The dates custom windows are asked for, and the period lengths.
CustomDates == { d \in WindowDates :
                   DateTime(2024, 1, 1, 0, 0, 0) <= d
                   /\ d <= DateTime(2024, 2, 1, 0, 0, 0) }

PeriodDays == {1, 7, 30}

InitWindows ==
    /\ pc = "windows"
    /\ CpmIdle /\ EngineIdle /\ DelayIdle
    /\ windows = << >>
    /\ request = None

\* create_monthly_windows: the windows replace the analyzer's.
CreateMonthlyWindows ==
    /\ pc = "windows"
    /\ \E start_date \in WindowDates, end_date \in WindowDates :
          /\ windows' = CreateMonthlyWindowsOf(start_date, end_date)
          /\ request' = Some([kind |-> "monthly", start_date |-> start_date,
                              end_date |-> end_date, period_days |-> 0])
    /\ UNCHANGED <<pc, cpmVars, engineVars, delayVars>>

\* create_custom_windows with a period of at least a day.
CreateCustomWindows ==
    /\ pc = "windows"
    /\ \E start_date \in CustomDates, end_date \in CustomDates,
          period_days \in PeriodDays :
          /\ windows' = CreateCustomWindowsOf(start_date, end_date, period_days)
          /\ request' = Some([kind |-> "custom", start_date |-> start_date,
                              end_date |-> end_date, period_days |-> period_days])
    /\ UNCHANGED <<pc, cpmVars, engineVars, delayVars>>

NextWindows == CreateMonthlyWindows \/ CreateCustomWindows

SpecWindows == InitWindows /\ [][NextWindows]_vars

----------------------------------------------------------------------------
(* Claims about forensic windows                                            *)

CustomRequest == IsSet(request) /\ Val(request).kind = "custom"

MonthlyRequest == IsSet(request) /\ Val(request).kind = "monthly"

\* C9: for start_date < end_date and period_days >= 1 the list of
\* create_custom_windows is not empty, its first window starts at start_date,
\* every later window starts where the one before it ends, every window but
\* the last spans period_days days, and the last window spans at most
\* period_days days and ends at end_date.
C9_CustomWindowsTileHorizon ==
    (CustomRequest /\ Val(request).start_date < Val(request).end_date
                   /\ Val(request).period_days >= 1) =>
        LET n == Len(windows)
            period == Val(request).period_days * Day
        IN  /\ n >= 1
            /\ windows[1].start_date = Val(request).start_date
            /\ \A i \in 2..n : windows[i].start_date = windows[i - 1].end_date
            /\ \A i \in 1..(n - 1) :
                  windows[i].end_date - windows[i].start_date = period
            /\ windows[n].end_date = Val(request).end_date
            /\ windows[n].start_date < windows[n].end_date
            /\ windows[n].end_date - windows[n].start_date <= period

\* A horizon of several windows that the period does not divide.
C9_Witness ==
    /\ CustomRequest
    /\ Len(windows) >= 3
    /\ (Val(request).end_date - Val(request).start_date)
           % (Val(request).period_days * Day) # 0
    /\ windows[Len(windows)].end_date = Val(request).end_date

\* The closed-interval test of _is_delay_in_window.
InWindow(w, d) == w.start_date <= d /\ d <= w.end_date

\* C10 as stated: no date lies, by the closed-interval test, in two distinct
\* windows of a list made by create_monthly_windows or create_custom_windows.
C10_NoDateInTwoWindows ==
    \A i \in DOMAIN windows : \A j \in DOMAIN windows \ {i} :
        ~ \E d \in { windows[k].start_date : k \in DOMAIN windows }
                   \cup { windows[k].end_date : k \in DOMAIN windows } :
              InWindow(windows[i], d) /\ InWindow(windows[j], d)

\* The monthly half of C10: the windows of create_monthly_windows share no
\* date, each ending a second before the next begins.
MonthlyWindowsShareNoDate ==
    MonthlyRequest =>
        \A i \in DOMAIN windows : \A j \in DOMAIN windows :
            i < j => windows[i].end_date < windows[j].start_date

\* The number of a date's calendar month, counted from the first month of
\* the first year, and the year and month of a month number.
MonthNumber(t) == (YearOf(t) - EpochYear) * 12 + MonthOf(t)

YearOfMonth(k) == EpochYear + ((k - 1) \div 12)

MonthOfMonth(k) == ((k - 1) % 12) + 1

\* C11 as stated: for start_date < end_date, create_monthly_windows returns
\* one window per calendar month touched by [start_date, end_date], in order;
\* the first starts at start_date, each later one on the first day of its
\* month, each but the last ends on the last day of its month, and the last
\* ends at end_date.
C11_OneWindowPerMonthClippedToEnd ==
    (MonthlyRequest /\ Val(request).start_date < Val(request).end_date) =>
        LET first == MonthNumber(Val(request).start_date)
            last == MonthNumber(Val(request).end_date)
            n == Len(windows)
            y(i) == YearOfMonth(first + i - 1)
            m(i) == MonthOfMonth(first + i - 1)
        IN  /\ n = last - first + 1
            /\ windows[1].start_date = Val(request).start_date
            /\ \A i \in 2..n :
                  windows[i].start_date = DateTime(y(i), m(i), 1, 0, 0, 0)
            /\ \A i \in 1..(n - 1) :
                  /\ DateTime(y(i), m(i), DaysInMonth(y(i), m(i)), 0, 0, 0)
                        <= windows[i].end_date
                  /\ windows[i].end_date
                        <= DateTime(y(i), m(i), DaysInMonth(y(i), m(i)), 23, 59, 59)
            /\ windows[n].end_date = Val(request).end_date

\* What does hold of create_monthly_windows for start_date < end_date: the
\* stated shape whenever end_date is not the first instant of a month; when
\* it is, that month gets no window and the last window ends a second early.
MonthlyWindowsStopBeforeMidnightEnd ==
    (MonthlyRequest /\ Val(request).start_date < Val(request).end_date) =>
        LET end == Val(request).end_date
            atMonthStart == end = DateTime(YearOf(end), MonthOf(end), 1, 0, 0, 0)
            n == Len(windows)
        IN  /\ n >= 1
            /\ windows[1].start_date = Val(request).start_date
            /\ IF atMonthStart
               THEN /\ n = MonthNumber(end) - MonthNumber(Val(request).start_date)
                    /\ windows[n].end_date = end - 1
               ELSE /\ n = MonthNumber(end) - MonthNumber(Val(request).start_date) + 1
                    /\ windows[n].end_date = end

----------------------------------------------------------------------------
(* Further claims about the Comparator                                      *)

\* The sum of f over the set S.
RECURSIVE SetSum(_, _)
SetSum(S, f) ==
    IF S = {} THEN 0
    ELSE LET x == CHOOSE x \in S : TRUE IN f[x] + SetSum(S \ {x}, f)

\* C12: the SPI of a comparison is the sum over the activities in both
\* schedules of percent_complete / 100 * baseline original_duration, divided
\* by the sum of baseline original_duration over the same activities, and is
\* 1 when that divisor is zero.
C12_SpiIsEarnedOverPlanned ==
    Compared =>
        LET planned == SetSum(CommonIds,
                [a \in CommonIds |-> Baseline.activities[a].original_duration])
            earned100 == SetSum(CommonIds,
                [a \in CommonIds |-> Current.activities[a].percent_complete
                                     * Baseline.activities[a].original_duration])
            spi == Val(comparison).spi
        IN  /\ spi.den > 0
            /\ IF planned = 0 THEN spi.num = spi.den
               ELSE spi.num * 100 * planned = earned100 * spi.den

\* Baseline durations of 10 and 20 days, 50% and 25% complete: SPI 10/30.
C12_Witness ==
    /\ Compared
    /\ CommonIds = {"A", "B"}
    /\ Baseline.activities["A"].original_duration = 10
    /\ Baseline.activities["B"].original_duration = 20
    /\ Current.activities["A"].percent_complete = 50
    /\ Current.activities["B"].percent_complete = 25
    /\ Val(comparison).spi.num * 30 = Val(comparison).spi.den * 10

\* C13: in any sequence of loads and comparisons, a compare_schedules call
\* made while the baseline or the current schedule is not loaded fails with
\* ValueError, returns no result and leaves the stored schedules as they
\* were; a result exists only when both schedules are loaded.
C13_CompareFailsUntilBothLoaded ==
    /\ [](IsSet(comparison) => BothLoaded)
    /\ [][(Compare /\ ~BothLoaded)
            => (outcome' = "ValueError" /\ comparison' = None /\ engine' = engine)]_vars

\* A comparison was refused while only the baseline was loaded.
C13_Witness ==
    /\ outcome = "ValueError"
    /\ IsSet(engine.baseline_schedule)
    /\ ~IsSet(engine.current_schedule)
    /\ comparison = None

\* The schedules the engine holds.
LoadedSchedules ==
    { Val(x) : x \in { y \in {engine.baseline_schedule, engine.current_schedule} :
                         IsSet(y) } }

\* C14 as stated: in every schedule the load pipeline produced, an activity
\* is critical if and only if its total float is <= 0.
C14_CriticalIffFloatNotPositive ==
    pc = "engine" =>
        \A schedule \in LoadedSchedules : \A a \in DOMAIN schedule.activities :
            schedule.activities[a].is_critical
                <=> schedule.activities[a].total_float <= 0

\* One direction does hold: an activity with total float <= 0 is critical.
LoadedFloatNotPositiveIsCritical ==
    pc = "engine" =>
        \A schedule \in LoadedSchedules : \A a \in DOMAIN schedule.activities :
            schedule.activities[a].total_float <= 0
                => schedule.activities[a].is_critical

----------------------------------------------------------------------------
(* Claims about the forward and the backward pass (checked under SpecCPM)   *)

\* The positions of the relationships into a from a present predecessor
\* (duplicates are distinct positions), and out of a to a present successor.
IncomingRels(a) ==
    { i \in DOMAIN relationships :
        relationships[i].successor_id = a
        /\ relationships[i].predecessor_id \in ActIds }

OutgoingRels(a) ==
    { i \in DOMAIN relationships :
        relationships[i].predecessor_id = a
        /\ relationships[i].successor_id \in ActIds }

\* The stated forward constraint of a relationship: the predecessor's early
\* finish + lag for Finish-to-Start and Finish-to-Finish, its early start +
\* lag for Start-to-Start and Start-to-Finish; absent when that date is.
StatedEarlyConstraint(rel) ==
    LET pred == activities[rel.predecessor_id]
        date == IF rel.relationship_type \in {FS, FF}
                THEN pred.early_finish ELSE pred.early_start
    IN  IF IsSet(date) THEN Some(Val(date) + rel.lag) ELSE None

\* The stated backward constraint: the successor's late start - lag for
\* Finish-to-Start and Start-to-Start, its late finish - lag otherwise.
StatedLateConstraint(rel) ==
    LET succ == activities[rel.successor_id]
        date == IF rel.relationship_type \in {FS, SS}
                THEN succ.late_start ELSE succ.late_finish
    IN  IF IsSet(date) THEN Some(Val(date) - rel.lag) ELSE None

EarlyConstraints(a) ==
    { Val(StatedEarlyConstraint(relationships[i])) :
        i \in { j \in IncomingRels(a) :
                  IsSet(StatedEarlyConstraint(relationships[j])) } }

LateConstraints(a) ==
    { Val(StatedLateConstraint(relationships[i])) :
        i \in { j \in OutgoingRels(a) :
                  IsSet(StatedLateConstraint(relationships[j])) } }

SetMax(S) == CHOOSE x \in S : \A y \in S : y <= x

SetMin(S) == CHOOSE x \in S : \A y \in S : x <= y

\* C15: on an acyclic graph, after the run every activity with a dated
\* constraint from a present predecessor has early_start equal to the
\* maximum of the stated constraint dates of its incoming relationships,
\* taken from the predecessors' final early dates, and early_finish =
\* early_start + duration; a missing predecessor contributes nothing.
C15_EarlyStartIsMaxConstraint ==
    (CpmDone /\ ~HasCycle) =>
        \A a \in ActIds :
            EarlyConstraints(a) # {} =>
                /\ activities[a].early_start = Some(SetMax(EarlyConstraints(a)))
                /\ activities[a].early_finish
                      = Some(SetMax(EarlyConstraints(a)) + activities[a].duration)

\* An acyclic run in which an activity has two present predecessors with
\* different constraint dates.
C15_Witness ==
    /\ CpmDone /\ ~HasCycle
    /\ \E a \in ActIds :
          /\ Cardinality(IncomingRels(a)) = 2
          /\ Cardinality(EarlyConstraints(a)) = 2
          /\ activities[a].early_start = Some(SetMax(EarlyConstraints(a)))

\* C16: on an acyclic graph, after the run every activity with a dated
\* constraint from a present successor has late_finish equal to the minimum
\* of the stated constraint dates of its outgoing relationships, taken from
\* the successors' final late dates, and late_start = late_finish - duration.
C16_LateFinishIsMinConstraint ==
    (CpmDone /\ ~HasCycle) =>
        \A a \in ActIds :
            LateConstraints(a) # {} =>
                /\ activities[a].late_finish = Some(SetMin(LateConstraints(a)))
                /\ activities[a].late_start
                      = Some(SetMin(LateConstraints(a)) - activities[a].duration)

\* An acyclic run in which an activity has two present successors with
\* different constraint dates, the later one given by the first relationship.
C16_Witness ==
    /\ CpmDone /\ ~HasCycle
    /\ \E a \in ActIds :
          /\ Cardinality(OutgoingRels(a)) = 2
          /\ Cardinality(LateConstraints(a)) = 2
          /\ StatedLateConstraint(relationships[1])
                # Some(SetMin(LateConstraints(a)))
          /\ activities[a].late_finish = Some(SetMin(LateConstraints(a)))

----------------------------------------------------------------------------
(* Delay events and window analysis: identify_delay_events, analyze_window  *)
(* and analyze_concurrent_delays                                            *)

\* config analysis.significant_delay_threshold, default 5
SignificantDelayThreshold == 5

\* datetime.now() of the run, after every date of the schedules.
Now == D(30)

\* DelayEvent(...) as the two builders fill it in.
DelayEvent(activity_id, delay_days, start_date, end_date, impact, window_id) ==
    [ activity_id |-> activity_id, delay_days |-> delay_days,
      start_date |-> start_date, end_date |-> end_date,
      impact_on_project |-> impact, is_concurrent |-> FALSE,
      window_id |-> window_id ]

\* identify_delay_events if only delays above the threshold were significant.
RECURSIVE IdentifyDelayEventsOf_AboveThreshold(_, _, _, _)
IdentifyDelayEventsOf_AboveThreshold(delayed, baseline, current, i) ==
    IF i > Len(delayed) THEN << >>
    ELSE LET id == delayed[i]
             rest == IdentifyDelayEventsOf_AboveThreshold(delayed, baseline,
                                                          current, i + 1)
         IN  IF id \notin DOMAIN baseline.activities THEN rest
             ELSE LET baseline_act == baseline.activities[id]
                      activity == current.activities[id]
                      delay_days == CalculateActivityDelay(baseline_act, activity)
                      impact == IF activity.is_critical THEN delay_days ELSE 0
                  IN  IF Abs(delay_days) > SignificantDelayThreshold
                      THEN <<DelayEvent(id, delay_days,
                                 IF IsSet(baseline_act.start_date)
                                 THEN Val(baseline_act.start_date) ELSE Now,
                                 activity.finish_date, impact, None)>> \o rest
                      ELSE rest

\* identify_delay_events: the loop over comparison.delayed_activities, which
\* holds activities of the current schedule.
RECURSIVE IdentifyDelayEventsOf(_, _, _, _)
IdentifyDelayEventsOf(delayed, baseline, current, i) ==
    IF i > Len(delayed) THEN << >>
    ELSE LET id == delayed[i]
             rest == IdentifyDelayEventsOf(delayed, baseline, current, i + 1)
         IN  IF id \notin DOMAIN baseline.activities THEN rest
             ELSE LET baseline_act == baseline.activities[id]
                      activity == current.activities[id]
                      delay_days == CalculateActivityDelay(baseline_act, activity)
                      impact == IF activity.is_critical THEN delay_days ELSE 0
                  IN  IF Abs(delay_days) >= SignificantDelayThreshold
                      THEN <<DelayEvent(id, delay_days,
                                 IF IsSet(baseline_act.start_date)
                                 THEN Val(baseline_act.start_date) ELSE Now,
                                 activity.finish_date, impact, None)>> \o rest
                      ELSE rest

\* _is_delay_in_window without the test for activity during the window.
IsDelayInWindow_FinishOnly(baseline_act, current_act, window) ==
    \/ /\ IsSet(baseline_act.finish_date)
       /\ window.start_date <= Val(baseline_act.finish_date)
       /\ Val(baseline_act.finish_date) <= window.end_date
    \/ /\ IsSet(current_act.actual_finish)
       /\ window.start_date <= Val(current_act.actual_finish)
       /\ Val(current_act.actual_finish) <= window.end_date

\* _is_delay_in_window
IsDelayInWindow(baseline_act, current_act, window) ==
    \/ /\ IsSet(baseline_act.finish_date)
       /\ window.start_date <= Val(baseline_act.finish_date)
       /\ Val(baseline_act.finish_date) <= window.end_date
    \/ /\ IsSet(current_act.actual_finish)
       /\ window.start_date <= Val(current_act.actual_finish)
       /\ Val(current_act.actual_finish) <= window.end_date
    \/ /\ IsSet(baseline_act.start_date) /\ IsSet(baseline_act.finish_date)
       /\ Val(baseline_act.start_date) <= window.end_date
       /\ Val(baseline_act.finish_date) >= window.start_date

\* _identify_window_delays: the loop over comparison.delayed_activities.
RECURSIVE IdentifyWindowDelays(_, _, _, _, _)
IdentifyWindowDelays(window, delayed, baseline, current, i) ==
    IF i > Len(delayed) THEN << >>
    ELSE LET id == delayed[i]
             rest == IdentifyWindowDelays(window, delayed, baseline, current, i + 1)
         IN  IF id \notin DOMAIN baseline.activities THEN rest
             ELSE LET baseline_act == baseline.activities[id]
                      activity == current.activities[id]
                      delay_days == CalculateActivityDelay(baseline_act, activity)
                      impact == IF activity.is_critical THEN delay_days ELSE 0
                  IN  IF IsDelayInWindow(baseline_act, activity, window)
                      THEN <<DelayEvent(id, delay_days,
                                 IF IsSet(baseline_act.start_date)
                                 THEN Val(baseline_act.start_date)
                                 ELSE window.start_date,
                                 IF IsSet(activity.finish_date)
                                 THEN activity.finish_date
                                 ELSE Some(window.end_date),
                                 impact, Some(window.window_id))>> \o rest
                      ELSE rest

\* _activity_in_window
ActivityInWindow(activity, window) ==
    /\ IsSet(activity.start_date) /\ IsSet(activity.finish_date)
    /\ Val(activity.start_date) <= window.end_date
    /\ Val(activity.finish_date) >= window.start_date

\* _analyze_critical_path_changes: the ids of each list of changes.
AnalyzeCriticalPathChanges(window, delays, result, baseline, current) ==
    [ new_critical |->
          SelectSeq(result.new_critical_activities,
                    LAMBDA a : ActivityInWindow(current.activities[a], window)),
      removed_critical |->
          SelectSeq(result.removed_critical_activities,
                    LAMBDA a : ActivityInWindow(current.activities[a], window)),
      remained_critical |->
          SelectSeq(KeysInOrder(current.activities),
                    LAMBDA a : /\ current.activities[a].is_critical
                               /\ a \in DOMAIN baseline.activities
                               /\ baseline.activities[a].is_critical),
      critical_delays |->
          SelectSeq(delays,
                    LAMBDA d : /\ d.activity_id \in DOMAIN current.activities
                               /\ current.activities[d.activity_id].is_critical) ]

\* ForensicWindow(window_id, start_date, end_date) with its analysis fields
\* at their defaults.
FreshWindow(window_num, start_date, end_date) ==
    [ window_id |-> <<window_num, start_date>>,
      start_date |-> start_date, end_date |-> end_date,
      delays |-> << >>, critical_path_changes |-> << >>,
      float_changes |-> << >> ]

\* analyze_window if it clipped the current schedule to the window it analyses.
AnalyzeWindowOf_ClipsSchedule(eng, window, order) ==
    LET call == CompareSchedules(eng, order)
        clipped == [call.engine EXCEPT !.current_schedule =
                       Some([Val(@) EXCEPT !.finish_date = window.end_date])]
    IN  IF call.raised # "none"
        THEN [engine |-> clipped, raised |-> call.raised,
              result |-> None, window |-> window]
        ELSE LET baseline == Val(call.engine.baseline_schedule)
                 current == Val(call.engine.current_schedule)
                 result == Val(call.result)
                 window_delays == IdentifyWindowDelays(window,
                                      result.delayed_activities, baseline, current, 1)
             IN  [engine |-> clipped, raised |-> "none",
                  result |-> call.result,
                  window |-> [window EXCEPT
                      !.delays = window_delays,
                      !.critical_path_changes =
                          AnalyzeCriticalPathChanges(window, window_delays, result,
                                                     baseline, current),
                      !.float_changes = result.float_changes]]

\* analyze_window(window, baseline_schedule, current_schedule) with the
\* engine's schedules as arguments: the analyzer's engine is given the two
\* schedules, compares them, and the window receives its delays, critical
\* path changes and float changes.  An exception of compare_schedules leaves
\* the window as it was.
AnalyzeWindowOf(eng, window, order) ==
    LET call == CompareSchedules(eng, order)
    IN  IF call.raised # "none"
        THEN [engine |-> call.engine, raised |-> call.raised,
              result |-> None, window |-> window]
        ELSE LET baseline == Val(call.engine.baseline_schedule)
                 current == Val(call.engine.current_schedule)
                 result == Val(call.result)
                 window_delays == IdentifyWindowDelays(window,
                                      result.delayed_activities, baseline, current, 1)
             IN  [engine |-> call.engine, raised |-> "none",
                  result |-> call.result,
                  window |-> [window EXCEPT
                      !.delays = window_delays,
                      !.critical_path_changes =
                          AnalyzeCriticalPathChanges(window, window_delays, result,
                                                     baseline, current),
                      !.float_changes = result.float_changes]]

\* ForensicWindow.get_critical_delays
GetCriticalDelays(window) ==
    SelectSeq(window.delays, LAMBDA d : d.impact_on_project > 0)

\* The inner loop if it flagged the delays it puts together.
ConcurrentSet_MarksMembers(critical_delays, i) ==
    LET found == SelectSeq(SubSeq(critical_delays, i + 1, Len(critical_delays)),
                     LAMBDA delay2 : /\ IsSet(critical_delays[i].end_date)
                                     /\ Val(critical_delays[i].end_date)
                                           >= delay2.start_date)
        together == <<critical_delays[i]>> \o found
    IN  IF found = << >> THEN together
        ELSE [k \in 1..Len(together) |->
                 [together[k] EXCEPT !.is_concurrent = TRUE]]

\* The inner loop of analyze_concurrent_delays: the delays after position i
\* that start on or before the end of delay1.
ConcurrentSet(critical_delays, i) ==
    <<critical_delays[i]>> \o
        SelectSeq(SubSeq(critical_delays, i + 1, Len(critical_delays)),
                  LAMBDA delay2 : /\ IsSet(critical_delays[i].end_date)
                                  /\ Val(critical_delays[i].end_date)
                                        >= delay2.start_date)

\* The groups of one window, from the delay at position i on.
RECURSIVE WindowGroups(_, _, _)
WindowGroups(window, critical_delays, i) ==
    IF i > Len(critical_delays) THEN << >>
    ELSE LET concurrent_set == ConcurrentSet(critical_delays, i)
             rest == WindowGroups(window, critical_delays, i + 1)
         IN  IF Len(concurrent_set) > 1
             THEN <<[ window_id |-> window.window_id,
                      delays |-> concurrent_set,
                      total_impact |->
                          SumOver([k \in 1..Len(concurrent_set) |-> k],
                                  [k \in 1..Len(concurrent_set) |->
                                      concurrent_set[k].impact_on_project], 1) ]>>
                  \o rest
             ELSE rest

\* analyze_concurrent_delays(windows), from the window at position w on.
RECURSIVE AnalyzeConcurrentDelaysOf(_, _)
AnalyzeConcurrentDelaysOf(ws, w) ==
    IF w > Len(ws) THEN << >>
    ELSE LET critical_delays == GetCriticalDelays(ws[w])
             groups == IF Len(ws[w].delays) > 1 /\ Len(critical_delays) > 1
                       THEN WindowGroups(ws[w], critical_delays, 1)
                       ELSE << >>
         IN  groups \o AnalyzeConcurrentDelaysOf(ws, w + 1)

\* The windows the analysis is run over, in the analyzer's list order.
AnalysisWindows ==
    << FreshWindow(1, D(1), D(9)), FreshWindow(2, D(15), D(21)),
       FreshWindow(3, D(9), D(11)) >>

\* The run of api.py over two loaded schedules: comparisons and the delay
\* events first, then the windows one after the other, then the groups.
InitAnalysis ==
    /\ pc = "engine"
    /\ CpmIdle
    /\ \E b \in XerFiles, c \in XerFiles :
          engine = [baseline_schedule |-> Some(ParsedFiles[b]),
                    current_schedule |-> Some(ParsedFiles[c])]
    /\ hashOrder \in HashOrders
    /\ comparison = None
    /\ previous = None
    /\ outcome = "ok"
    /\ delay_events = << >>
    /\ concurrent_delays = << >>
    /\ windows = AnalysisWindows
    /\ request = None

\* compare_schedules() before the windows are analysed.
CompareLoaded ==
    /\ request = None
    /\ Compare

\* identify_delay_events(comparison) on the result of the last comparison.
IdentifyDelayEvents ==
    /\ pc = "engine"
    /\ request = None
    /\ IsSet(comparison)
    /\ delay_events' = IdentifyDelayEventsOf(Val(comparison).delayed_activities,
                           Val(engine.baseline_schedule),
                           Val(engine.current_schedule), 1)
    /\ outcome' = "identified"
    /\ UNCHANGED <<pc, cpmVars, engine, hashOrder, comparison, previous,
                   concurrent_delays, windowVars>>

\* analyze_window on the next window of the list.
AnalyzeWindow ==
    /\ pc = "engine"
    /\ LET i == IF IsSet(request) THEN Val(request) + 1 ELSE 1
       IN  /\ i <= Len(windows)
           /\ LET call == AnalyzeWindowOf(engine, windows[i], hashOrder)
              IN  /\ engine' = call.engine
                  /\ windows' = [windows EXCEPT ![i] = call.window]
                  /\ comparison' = call.result
                  /\ previous' = IF call.raised = "none" THEN comparison ELSE None
                  /\ outcome' = IF call.raised = "none" THEN "analyzed"
                                ELSE call.raised
           /\ request' = Some(i)
    /\ UNCHANGED <<pc, cpmVars, hashOrder, delayVars>>

\* analyze_concurrent_delays(analyzed_windows) once every window is analysed.
AnalyzeConcurrentDelays ==
    /\ pc = "engine"
    /\ request = Some(Len(windows))
    /\ concurrent_delays' = AnalyzeConcurrentDelaysOf(windows, 1)
    /\ outcome' = "grouped"
    /\ UNCHANGED <<pc, cpmVars, engine, hashOrder, comparison, previous, delay_events, windowVars>>

NextAnalysis ==
    CompareLoaded \/ IdentifyDelayEvents \/ AnalyzeWindow \/ AnalyzeConcurrentDelays

SpecAnalysis == InitAnalysis /\ [][NextAnalysis]_vars

----------------------------------------------------------------------------
(* Claims about the analysis run                                            *)

\* The window whose analysis the last step made, if the last step was one.
Analyzed(i) == IsSet(request) /\ Val(request) >= i

\* C17: compare_schedules, identify_delay_events and analyze_window leave
\* the baseline and the current schedule exactly as they were before the call.
C17_AnalysisLeavesSchedulesUnchanged ==
    [][/\ engine.baseline_schedule' = engine.baseline_schedule
       /\ engine.current_schedule' = engine.current_schedule]_vars

\* Every window analysed and the delay events identified, with delays found
\* in a window and among the events.
C17_Witness ==
    /\ Analyzed(Len(windows))
    /\ IsSet(comparison) /\ IsSet(previous)
    /\ Len(delay_events) > 0
    /\ Len(windows[2].delays) > 0

\* The events of a list that are about activity a.
EventsOf(events, a) == { k \in DOMAIN events : events[k].activity_id = a }

\* The delay of a common activity between the two loaded schedules.
ActivityDelay(a) ==
    CalculateActivityDelay(Baseline.activities[a], Current.activities[a])

\* The activities the last comparison lists as delayed.
Delayed == Range(Val(comparison).delayed_activities)

\* C18: identify_delay_events returns exactly one event for each delayed
\* activity whose delay magnitude is at least the significance threshold and
\* none for any other activity; an event's impact_on_project is its
\* delay_days when the current activity is critical and 0 otherwise, and
\* every event is created with is_concurrent false.
C18_OneEventPerSignificantDelay ==
    outcome = "identified" =>
        /\ \A a \in TaskIds :
              Cardinality(EventsOf(delay_events, a)) =
                  IF a \in Delayed /\ Abs(ActivityDelay(a)) >= SignificantDelayThreshold
                  THEN 1 ELSE 0
        /\ \A k \in DOMAIN delay_events :
              LET event == delay_events[k]
              IN  /\ event.delay_days = ActivityDelay(event.activity_id)
                  /\ event.impact_on_project =
                        IF Current.activities[event.activity_id].is_critical
                        THEN event.delay_days ELSE 0
                  /\ ~event.is_concurrent

\* Two delayed activities, one of exactly five days on a critical activity,
\* which gets the one event, and one below the threshold, which gets none.
C18_Witness ==
    /\ outcome = "identified"
    /\ Cardinality(Delayed) = 2
    /\ Len(delay_events) = 1
    /\ delay_events[1].delay_days = SignificantDelayThreshold
    /\ delay_events[1].impact_on_project = SignificantDelayThreshold

\* A significant delay of an activity that is not critical has no impact.
C18_NonCriticalWitness ==
    /\ outcome = "identified"
    /\ Len(delay_events) = 1
    /\ delay_events[1].delay_days > 0
    /\ delay_events[1].impact_on_project = 0

\* Date x lies in the closed interval of window w.
InClosedWindow(x, w) == w.start_date <= x /\ x <= w.end_date

\* The later of two dates.
Later(x, y) == IF x >= y THEN x ELSE y

\* The three conditions under which a delayed activity belongs to window w.
StatedInWindow(a, w) ==
    LET baseline_act == Baseline.activities[a]
        current_act == Current.activities[a]
    IN  \/ /\ IsSet(baseline_act.finish_date)
           /\ InClosedWindow(Val(baseline_act.finish_date), w)
        \/ /\ IsSet(current_act.actual_finish)
           /\ InClosedWindow(Val(current_act.actual_finish), w)
        \/ /\ IsSet(baseline_act.start_date) /\ IsSet(baseline_act.finish_date)
           /\ Later(Val(baseline_act.start_date), w.start_date)
                 <= Min2(Val(baseline_act.finish_date), w.end_date)

\* C19: after analyze_window the window's delays hold exactly one event for
\* each activity the comparison lists as delayed whose baseline finish or
\* current actual finish lies in the window or whose baseline interval
\* overlaps it, and no other event; every event carries the window's id and
\* the activity's delay between the two schedules.
C19_WindowDelaysAreDelayedInWindow ==
    \A i \in DOMAIN windows :
        (Analyzed(i) /\ IsSet(comparison)) =>
            /\ \A a \in TaskIds :
                  Cardinality(EventsOf(windows[i].delays, a)) =
                      IF a \in Delayed /\ StatedInWindow(a, windows[i])
                      THEN 1 ELSE 0
            /\ \A k \in DOMAIN windows[i].delays :
                  LET event == windows[i].delays[k]
                  IN  /\ event.window_id = Some(windows[i].window_id)
                      /\ event.delay_days = ActivityDelay(event.activity_id)

\* Two delayed activities: the first window holds only the one whose
\* baseline interval overlaps it, the second holds both, one by its actual
\* finish and one by its baseline finish.
C19_Witness ==
    /\ Analyzed(Len(windows))
    /\ IsSet(comparison)
    /\ Cardinality(Delayed) = 2
    /\ Len(windows[1].delays) = 1
    /\ Len(windows[2].delays) = 2
    /\ \E k \in DOMAIN windows[2].delays :
          LET a == windows[2].delays[k].activity_id
          IN  /\ IsSet(Baseline.activities[a].finish_date)
              /\ ~InClosedWindow(Val(Baseline.activities[a].finish_date), windows[2])
              /\ IsSet(Current.activities[a].actual_finish)

\* The analysed windows that carry the id of group g.
WindowsOf(g) == { i \in DOMAIN windows : windows[i].window_id = g.window_id }

\* C20: every group of analyze_concurrent_delays holds at least two critical
\* delays of its window, every member after the first overlaps the first in
\* time, and total_impact is the sum of the members' impact_on_project; a
\* window with fewer than two critical delays has no group.
C20_GroupsAreOverlappingCriticalDelays ==
    outcome = "grouped" =>
        \A n \in DOMAIN concurrent_delays :
            LET g == concurrent_delays[n]
            IN  /\ Len(g.delays) >= 2
                /\ \A i \in WindowsOf(g) :
                      /\ Len(GetCriticalDelays(windows[i])) >= 2
                      /\ \A k \in DOMAIN g.delays :
                            /\ g.delays[k].impact_on_project > 0
                            /\ g.delays[k] \in Range(windows[i].delays)
                /\ WindowsOf(g) # {}
                /\ \A k \in 2..Len(g.delays) :
                      Overlap(g.delays[1], g.delays[k])
                /\ g.total_impact =
                      SetSum(DOMAIN g.delays,
                             [k \in DOMAIN g.delays |-> g.delays[k].impact_on_project])

\* What does hold: every later member of a group starts on or before the
\* end of the group's first delay.
GroupMembersStartBeforeFirstEnds ==
    outcome = "grouped" =>
        \A n \in DOMAIN concurrent_delays :
            \A k \in 2..Len(concurrent_delays[n].delays) :
                LET g == concurrent_delays[n]
                IN  /\ IsSet(g.delays[1].end_date)
                    /\ g.delays[k].start_date <= Val(g.delays[1].end_date)

----------------------------------------------------------------------------
(* Further claims about the Comparator                                      *)

\* The dates the stated milestone delay is computed from are there.
MilestoneDatesPresent(b, c) ==
    IsSet(b.finish_date) /\ (IsSet(c.actual_finish) \/ IsSet(c.finish_date))

\* The milestone delay as stated: the actual finish when there is one,
\* otherwise the planned finish, against the baseline's planned finish.
StatedMilestoneDelay(b, c) ==
    IF IsSet(c.actual_finish)
    THEN Days(Val(c.actual_finish) - Val(b.finish_date))
    ELSE Days(Val(c.finish_date) - Val(b.finish_date))

\* C21: milestone_delays lists an activity of both schedules iff its
\* baseline record is a milestone and days(current actual finish, or planned
\* finish when there is no actual one, - baseline planned finish) is not
\* zero, with that value; non-milestones and activities of one schedule only
\* never appear.
C21_MilestoneDelaysAreNonZeroSlips ==
    Compared =>
        LET milestone_delays == Val(comparison).milestone_delays
        IN  /\ DOMAIN milestone_delays \subseteq CommonIds
            /\ \A a \in CommonIds :
                  LET b == Baseline.activities[a]
                      c == Current.activities[a]
                  IN  /\ b.original_duration # 0 => a \notin DOMAIN milestone_delays
                      /\ (b.original_duration = 0 /\ MilestoneDatesPresent(b, c)) =>
                            /\ a \in DOMAIN milestone_delays
                                  <=> StatedMilestoneDelay(b, c) # 0
                            /\ a \in DOMAIN milestone_delays
                                  => milestone_delays[a] = StatedMilestoneDelay(b, c)

\* A milestone planned for day 20 in both schedules and actually reached on
\* day 22 is listed with two days.
C21_Witness ==
    /\ Compared
    /\ "B" \in DOMAIN Val(comparison).milestone_delays
    /\ Val(comparison).milestone_delays["B"] = 2
    /\ Current.activities["B"].actual_finish = Some(D(22))
    /\ Current.activities["B"].finish_date = Baseline.activities["B"].finish_date

\* A milestone reached on its baseline day is not listed although its
\* planned finish differs from the baseline's.
C21_OnTimeWitness ==
    /\ Compared
    /\ "B" \in CommonIds
    /\ Current.activities["B"].actual_finish = Baseline.activities["B"].finish_date
    /\ Current.activities["B"].finish_date # Baseline.activities["B"].finish_date
    /\ "B" \notin DOMAIN Val(comparison).milestone_delays

\* Two ratios denote the same number.
SameRatio(r1, r2) == r1.num * r2.den = r2.num * r1.den

\* The total original duration of the baseline's activities.
BaselineDuration ==
    SetSum(DOMAIN Baseline.activities,
           [a \in DOMAIN Baseline.activities |->
               Baseline.activities[a].original_duration])

\* A hundred times the earned duration over the activities of both schedules.
EarnedDuration100 ==
    SetSum(CommonIds,
           [a \in CommonIds |-> Current.activities[a].percent_complete
                                  * Baseline.activities[a].original_duration])

\* Whole days from the baseline start to the baseline finish and to the
\* current data date.
BaselineDays == Days(Baseline.finish_date - Baseline.start_date)

ElapsedDays == Days(Current.data_date - Baseline.start_date)

\* C22: the completion variance of a comparison is earned duration over
\* total baseline duration x 100 minus elapsed days over baseline days x 100,
\* and is exactly 0 when the baseline finish is not after its start or the
\* baseline durations sum to zero.
C22_CompletionVarianceIsActualMinusExpected ==
    Compared =>
        LET cv == Val(comparison).completion_variance
        IN  IF Baseline.finish_date <= Baseline.start_date \/ BaselineDuration = 0
            THEN cv.num = 0
            ELSE SameRatio(cv,
                     Ratio(EarnedDuration100 * BaselineDays
                               - 100 * ElapsedDays * BaselineDuration,
                           BaselineDuration * BaselineDays))

\* What does hold: with durations the variance is actual minus expected
\* completion, and without durations it is minus the expected completion.
CompletionVarianceCountsNoEarningWithoutDurations ==
    Compared =>
        LET cv == Val(comparison).completion_variance
        IN  /\ Baseline.finish_date > Baseline.start_date
            /\ IF BaselineDuration = 0
               THEN SameRatio(cv, Ratio(0 - 100 * ElapsedDays, BaselineDays))
               ELSE SameRatio(cv,
                        Ratio(EarnedDuration100 * BaselineDays
                                  - 100 * ElapsedDays * BaselineDuration,
                              BaselineDuration * BaselineDays))

----------------------------------------------------------------------------
(* The utilities of utils.py, called on a schedule                          *)

\* An Activity as its constructor leaves it: planned for days 0 to 10, not
\* started, without relationships.
PlainActivity ==
    [ start_date |-> Some(0), finish_date |-> Some(D(10)),
      actual_start |-> None, actual_finish |-> None,
      status |-> NOT_STARTED, total_float |-> 0,
      is_critical |-> FALSE, is_milestone |-> FALSE,
      predecessors |-> << >>, successors |-> << >> ]

UtilIds == {"A", "B", "C"}

\* Schedules for the float calculator: A is followed by B and C in either
\* order, by an activity the schedule does not hold, or by nothing; the
\* successors start before or after the project finish or have no start.
FloatSchedules ==
    { [a \in UtilIds |->
          IF a = "A" THEN [PlainActivity EXCEPT !.finish_date = finish,
                                                !.successors = succs]
          ELSE [PlainActivity EXCEPT
                   !.start_date = IF a = "B" THEN b_start ELSE c_start,
                   !.finish_date = None,
                   !.predecessors = IF a \in Range(succs) THEN <<"A">> ELSE << >>]] :
      finish \in {None, Some(D(10)), Some(D(10) + HalfDay)},
      succs \in { << >>, <<"B">>, <<"B", "C">>, <<"C", "B">>,
                  <<MissingId>>, <<MissingId, "B">> },
      b_start \in {None, Some(D(12)), Some(D(25))},
      c_start \in {None, Some(D(14))} }

ProjectFinishes == {D(13), D(20)}

\* The lists of neighbours an activity of the chain schedules may have:
\* the other two activities in either order, one of them, itself, or none.
NeighbourLists(a) ==
    LET others == UtilIds \ {a}
    IN  { << >>, <<a>> }
        \cup { <<b>> : b \in others }
        \cup { p \in others \X others : p[1] # p[2] }

\* The predecessors list that goes with the successors lists succs.
PredecessorsOf(a, succs) ==
    SelectSeq(ActivityList, LAMBDA b : a \in Range(succs[b]))

\* Schedules for the critical chain: any graph on three activities, cycles
\* and self-loops included, A possibly followed by an activity the schedule
\* does not hold, any of the three critical.
ChainSchedules ==
    { [a \in UtilIds |->
          [PlainActivity EXCEPT
              !.is_critical = (a \in critical),
              !.successors = IF a = "A" /\ dangling
                             THEN <<MissingId>> \o succs[a] ELSE succs[a],
              !.predecessors = PredecessorsOf(a, succs)]] :
      succs \in { f \in [UtilIds -> UNION { NeighbourLists(a) : a \in UtilIds }] :
                    \A a \in UtilIds : f[a] \in NeighbourLists(a) },
      critical \in SUBSET UtilIds,
      dangling \in BOOLEAN }

Directions == {"forward", "backward"}

\* The search if it took the first unvisited neighbour, critical or not.
NextCritical_AnyNeighbour(acts, neighbors, visited) ==
    LET unvisited == SelectSeq(neighbors, LAMBDA neighbor_id :
                        /\ neighbor_id \notin visited
                        /\ neighbor_id \in DOMAIN acts)
    IN  IF unvisited = << >> THEN None ELSE Some(unvisited[1])

\* The search of one pass of the while loop of get_critical_chain: the first
\* neighbour that is not visited, is in the schedule and is critical.
NextCritical(acts, neighbors, visited) ==
    LET critical == SelectSeq(neighbors, LAMBDA neighbor_id :
                        /\ neighbor_id \notin visited
                        /\ neighbor_id \in DOMAIN acts
                        /\ acts[neighbor_id].is_critical)
    IN  IF critical = << >> THEN None ELSE Some(critical[1])

\* Schedules for the validator: B follows A, A and C, an activity the
\* schedule does not hold, or nothing; B is planned to start on day 3 or has
\* no planned start, and actually started before, on or after that day or
\* not at all.
ValidateSchedules ==
    { [a \in UtilIds |->
          IF a = "B"
          THEN [PlainActivity EXCEPT !.status = b_status,
                                     !.start_date = b_start,
                                     !.actual_start = b_actual,
                                     !.predecessors = preds]
          ELSE [PlainActivity EXCEPT
                   !.status = IF a = "A" THEN a_status ELSE c_status,
                   !.actual_start = IF a = "A" /\ a_status # NOT_STARTED
                                    THEN Some(0) ELSE None,
                   !.actual_finish = IF a = "A" /\ a_status = COMPLETED
                                     THEN Some(D(2)) ELSE None,
                   !.total_float = IF a = "C" THEN c_float ELSE 0,
                   !.successors = IF a \in Range(preds) THEN <<"B">> ELSE << >>]] :
      b_status \in {NOT_STARTED, IN_PROGRESS, COMPLETED},
      b_start \in {None, Some(D(3))},
      b_actual \in {None, Some(D(1)), Some(D(3)), Some(D(5))},
      preds \in { << >>, <<"A">>, <<MissingId>>, <<"A", "C">> },
      a_status \in {NOT_STARTED, IN_PROGRESS, COMPLETED},
      c_status \in {NOT_STARTED, COMPLETED},
      c_float \in {0, 0 - 31} }

\* validate_schedule: the issues of each category, as the ids (with the kind
\* of missing date) in dictionary order.
ValidateSchedule(acts) ==
    LET ids == SelectSeq(ActivityList, LAMBDA a : a \in DOMAIN acts)
        has_incomplete_preds(a) ==
            \E k \in DOMAIN acts[a].predecessors :
                /\ acts[a].predecessors[k] \in DOMAIN acts
                /\ acts[acts[a].predecessors[k]].status # COMPLETED
        NoStart(a) == acts[a].status # NOT_STARTED /\ ~IsSet(acts[a].actual_start)
        NoFinish(a) == acts[a].status = COMPLETED /\ ~IsSet(acts[a].actual_finish)
        RECURSIVE MissingDates(_)
        MissingDates(i) ==
            IF i > Len(ids) THEN << >>
            ELSE (IF NoStart(ids[i]) THEN <<<<ids[i], "actual start">>>> ELSE << >>)
                 \o (IF NoFinish(ids[i]) THEN <<<<ids[i], "actual finish">>>> ELSE << >>)
                 \o MissingDates(i + 1)
    IN  [ missing_dates |-> MissingDates(1),
          logic_errors |->
              SelectSeq(ids, LAMBDA a :
                  /\ IsSet(acts[a].start_date) /\ IsSet(acts[a].finish_date)
                  /\ Val(acts[a].start_date) > Val(acts[a].finish_date)),
          out_of_sequence |->
              SelectSeq(ids, LAMBDA a :
                  /\ IsSet(acts[a].actual_start) /\ IsSet(acts[a].start_date)
                  /\ Val(acts[a].actual_start) < Val(acts[a].start_date)
                  /\ acts[a].status = IN_PROGRESS
                  /\ has_incomplete_preds(a)),
          negative_float |->
              SelectSeq(ids, LAMBDA a : acts[a].total_float < 0 - 30),
          missing_relationships |->
              SelectSeq(ids, LAMBDA a :
                  /\ ~acts[a].is_milestone
                  /\ acts[a].predecessors = << >>
                  /\ acts[a].successors = << >>),
          constraint_issues |-> << >> ]

UtilSchedules == FloatSchedules \cup ChainSchedules \cup ValidateSchedules

InitUtils ==
    /\ pc = "utils"
    /\ activities \in UtilSchedules
    /\ relationships = << >> /\ cpm = << >>
    /\ EngineIdle /\ DelayIdle
    /\ windows = << >>
    /\ request = None

\* FloatCalculator.calculate_total_float(activity, project_finish, activities)
CalculateTotalFloatCall ==
    /\ pc = "utils"
    /\ \E a \in DOMAIN activities, project_finish \in ProjectFinishes :
          request' = Some([op |-> "calculate_total_float", activity |-> a,
                           project_finish |-> project_finish,
                           result |-> CalculateTotalFloat(activities[a],
                                          project_finish, activities)])
    /\ UNCHANGED <<pc, cpmVars, engineVars, delayVars, windows>>

\* CriticalPathAnalyzer.get_critical_chain(activity, schedule, direction), up
\* to the while loop.
GetCriticalChainCall ==
    /\ pc = "utils"
    /\ \E a \in DOMAIN activities, direction \in Directions :
          request' = Some([op |-> "get_critical_chain", activity |-> a,
                           direction |-> direction, chain |-> <<a>>,
                           visited |-> {a}, current |-> a])
    /\ pc' = "chain"
    /\ UNCHANGED <<cpmVars, engineVars, delayVars, windows>>

\* One pass of the while loop: the chain grows by the next critical
\* neighbour, or the loop breaks and the chain is returned.
ChainStep ==
    /\ pc = "chain"
    /\ LET call == Val(request)
           current == activities[call.current]
           neighbors == IF call.direction = "forward"
                        THEN current.successors ELSE current.predecessors
           next_critical == NextCritical(activities, neighbors, call.visited)
       IN  IF IsSet(next_critical)
           THEN /\ request' = Some([call EXCEPT
                       !.visited = @ \cup {Val(next_critical)},
                       !.chain = IF call.direction = "forward"
                                 THEN Append(@, Val(next_critical))
                                 ELSE <<Val(next_critical)>> \o @,
                       !.current = Val(next_critical)])
                /\ pc' = "chain"
           ELSE /\ request' = request
                /\ pc' = "utils"
    /\ UNCHANGED <<cpmVars, engineVars, delayVars, windows>>

\* ScheduleValidator.validate_schedule(schedule): it reads the schedule and
\* returns the issues.
ValidateScheduleCall ==
    /\ pc = "utils"
    /\ request' = Some([op |-> "validate_schedule",
                        result |-> ValidateSchedule(activities)])
    /\ UNCHANGED <<pc, cpmVars, engineVars, delayVars, windows>>

NextUtils ==
    CalculateTotalFloatCall \/ GetCriticalChainCall \/ ChainStep
        \/ ValidateScheduleCall

SpecUtils == InitUtils /\ [][NextUtils]_vars

\* The while loop is not suspended for ever: the call runs on one thread.
SpecUtilsFair == SpecUtils /\ WF_vars(ChainStep)

----------------------------------------------------------------------------
(* Claims about the utilities                                               *)

\* The last call was op.
Called(op) == IsSet(request) /\ Val(request).op = op

\* The planned starts of the successors of activity a that the schedule holds.
SuccessorStarts(a) ==
    { Val(activities[s].start_date) :
        s \in { t \in Range(activities[a].successors) \cap DOMAIN activities :
                  IsSet(activities[t].start_date) } }

ChainRunning == pc = "chain"

ChainReturned == Called("get_critical_chain") /\ pc = "utils"

\* The neighbours of activity a in the walking direction.
Neighbours(a, direction) ==
    IF direction = "forward"
    THEN Range(activities[a].successors) ELSE Range(activities[a].predecessors)

\* What the returned chain must be.
ChainIsCriticalPath ==
    LET call == Val(request)
        chain == call.chain
        far_end == IF call.direction = "forward" THEN chain[Len(chain)] ELSE chain[1]
    IN  /\ call.activity \in Range(chain)
        /\ \A j \in DOMAIN chain, k \in DOMAIN chain : chain[j] = chain[k] => j = k
        /\ \A k \in DOMAIN chain :
              chain[k] # call.activity => activities[chain[k]].is_critical
        /\ \A k \in 1..(Len(chain) - 1) :
              IF call.direction = "forward"
              THEN chain[k + 1] \in Range(activities[chain[k]].successors)
              ELSE chain[k] \in Range(activities[chain[k + 1]].predecessors)
        /\ \A n \in Neighbours(far_end, call.direction) \cap DOMAIN activities :
              activities[n].is_critical => n \in Range(chain)

\* C24: get_critical_chain terminates on every graph, cyclic ones included,
\* and returns a chain that holds the starting activity, holds no activity
\* twice, whose other activities are all critical, whose consecutive
\* activities are linked by a dependency in chain order, and whose far end
\* has no unvisited critical neighbour in the walking direction.
C24_ChainTerminatesAsCriticalPath ==
    /\ [](ChainReturned => ChainIsCriticalPath)
    /\ (ChainRunning ~> ChainReturned)

\* Whether the successors lists hold a cycle through all three activities.
ThreeCycle ==
    /\ "B" \in Range(activities["A"].successors)
    /\ "C" \in Range(activities["B"].successors)
    /\ "A" \in Range(activities["C"].successors)

\* On a cycle of three critical activities the forward walk from A returns
\* the three of them once each.
C24_Witness ==
    /\ ChainReturned
    /\ ThreeCycle
    /\ Val(request).direction = "forward"
    /\ Val(request).chain = <<"A", "B", "C">>

\* A backward walk that passes a non-critical first predecessor by.
C24_BackwardWitness ==
    /\ ChainReturned
    /\ Val(request).direction = "backward"
    /\ Val(request).activity = "C"
    /\ activities["C"].predecessors = <<"A", "B">>
    /\ ~activities["A"].is_critical
    /\ Val(request).chain = <<"B", "C">>

\* C25: validate_schedule lists an activity under out_of_sequence iff its
\* status is in progress, it has an actual start, and a predecessor the
\* schedule holds is not completed.
C25_OutOfSequenceIffIncompletePredecessor ==
    Called("validate_schedule") =>
        \A a \in DOMAIN activities :
            a \in Range(Val(request).result.out_of_sequence)
                <=> /\ activities[a].status = IN_PROGRESS
                    /\ IsSet(activities[a].actual_start)
                    /\ \E p \in Range(activities[a].predecessors) \cap DOMAIN activities :
                          activities[p].status # COMPLETED

\* What does hold: the activity is listed iff, besides, it has a planned
\* start and actually started before it.
OutOfSequenceOnlyWhenStartedEarly ==
    Called("validate_schedule") =>
        \A a \in DOMAIN activities :
            a \in Range(Val(request).result.out_of_sequence)
                <=> /\ activities[a].status = IN_PROGRESS
                    /\ IsSet(activities[a].actual_start)
                    /\ IsSet(activities[a].start_date)
                    /\ Val(activities[a].actual_start) < Val(activities[a].start_date)
                    /\ \E p \in Range(activities[a].predecessors) \cap DOMAIN activities :
                          activities[p].status # COMPLETED

\* No call of a utility changes the schedule.
UtilitiesLeaveScheduleUnchanged == [][activities' = activities]_vars

----------------------------------------------------------------------------
(* The loop of create_custom_windows, pass by pass                          *)

\* Bound: the number of windows after which a run of the loop is cut off.
MaxWindows == 5

LoopDates ==
    { DateTime(2024, 1, 1, 0, 0, 0), DateTime(2024, 1, 2, 0, 0, 0),
      DateTime(2024, 1, 3, 12, 0, 0), DateTime(2024, 1, 5, 0, 0, 0) }

\* period_days is an int: negative, zero or positive.
PeriodChoices == {0 - 1, 0, 1, 2}

\* window_end if the period were raised to at least one day.
WindowEnd_AtLeastOneDay(current_date, end_date, period_days) ==
    Min2(current_date + (IF period_days < 1 THEN 1 ELSE period_days) * Day, end_date)

\* window_end = min(current_date + timedelta(days=period_days), end_date)
WindowEnd(current_date, end_date, period_days) ==
    Min2(current_date + period_days * Day, end_date)

\* create_custom_windows(start_date, end_date, period_days) up to the loop.
CustomWindowsCall ==
    /\ pc = "windows"
    /\ \E start_date \in LoopDates, end_date \in LoopDates,
          period_days \in PeriodChoices :
          request' = Some([kind |-> "custom", start_date |-> start_date,
                           end_date |-> end_date, period_days |-> period_days,
                           current_date |-> start_date, made |-> << >>])
    /\ pc' = "custom loop"
    /\ UNCHANGED <<cpmVars, engineVars, delayVars, windows>>

\* One pass of the while loop: a window is appended and the cursor moves to
\* its end.
CustomWindowsPass ==
    /\ pc = "custom loop"
    /\ LET call == Val(request)
       IN  /\ call.current_date < call.end_date
           /\ Len(call.made) < MaxWindows
           /\ LET window_end == WindowEnd(call.current_date, call.end_date,
                                          call.period_days)
              IN  request' = Some([call EXCEPT
                      !.made = Append(@, NewWindow(Len(call.made) + 1,
                                                   call.current_date, window_end)),
                      !.current_date = window_end])
    /\ UNCHANGED <<pc, cpmVars, engineVars, delayVars, windows>>

\* The loop condition fails: the windows replace the analyzer's and are
\* returned.
CustomWindowsReturn ==
    /\ pc = "custom loop"
    /\ Val(request).current_date >= Val(request).end_date
    /\ windows' = Val(request).made
    /\ pc' = "windows"
    /\ UNCHANGED <<cpmVars, engineVars, delayVars, request>>

NextWindowLoop == CustomWindowsCall \/ CustomWindowsPass \/ CustomWindowsReturn

SpecWindowLoop == InitWindows /\ [][NextWindowLoop]_vars

\* The loop runs on one thread and is not suspended for ever.
SpecWindowLoopFair ==
    SpecWindowLoop /\ WF_vars(CustomWindowsPass) /\ WF_vars(CustomWindowsReturn)

\* create_custom_windows is in its loop, or has returned.
CustomLoopRunning == pc = "custom loop"

CustomLoopReturned == pc = "windows" /\ IsSet(request)

\* The arguments with which the claim says the call terminates.
TerminatingArguments ==
    \/ Val(request).start_date >= Val(request).end_date
    \/ Val(request).period_days >= 1

C26_ReturnedWitness ==
    /\ CustomLoopReturned
    /\ Val(request).period_days = 1
    /\ Len(windows) = 4

----------------------------------------------------------------------------
(* Further claims about the CPM engine (checked under SpecCPM)              *)

\* The run was on an acyclic schedule of finish-to-start relationships in
\* which every activity without predecessors has a start date and no
\* early or late date was set beforehand.
CleanFinishToStartRun ==
    /\ CpmFloatStepRan
    /\ ~HasCycle
    /\ \A r \in Range(relationships) : r.relationship_type = FS
    /\ \A a \in ActIds :
          /\ cpm.before[a].predecessors = << >> => IsSet(cpm.before[a].start_date)
          /\ \A f \in DateFields : ~IsSet(cpm.before[a][f])

\* C27: after such a run every activity has late_start >= early_start and
\* total_float >= 0, and every activity without successors has total_float 0
\* and is marked critical.
C27_FloatNonNegativeAndEndsCritical ==
    CleanFinishToStartRun =>
        \A a \in ActIds :
            /\ (IsSet(activities[a].early_start) /\ IsSet(activities[a].late_start)) =>
                  Val(activities[a].late_start) >= Val(activities[a].early_start)
            /\ activities[a].total_float >= 0
            /\ activities[a].successors = << >> =>
                  /\ activities[a].total_float = 0
                  /\ activities[a].is_critical

\* What does hold: the same when, besides, the predecessor of every
\* relationship is an activity of the schedule; every activity is then dated.
FloatNonNegativeWithoutDanglingPredecessors ==
    (CleanFinishToStartRun
        /\ \A r \in Range(relationships) : r.predecessor_id \in ActIds) =>
        \A a \in ActIds :
            /\ IsSet(activities[a].early_start) /\ IsSet(activities[a].late_start)
            /\ Val(activities[a].late_start) >= Val(activities[a].early_start)
            /\ activities[a].total_float >= 0
            /\ activities[a].successors = << >> =>
                  /\ activities[a].total_float = 0
                  /\ activities[a].is_critical

----------------------------------------------------------------------------
(* The analyzer's shared engine: analyze_window and                         *)
(* perform_as_planned_vs_as_built called in any order                       *)

\* analyze_window if it compared the schedules the engine already holds
\* whenever it holds a pair.
AnalyzeWindowWith_KeepsEngine(eng, window, baseline_schedule, current_schedule, order) ==
    IF IsSet(eng.baseline_schedule) /\ IsSet(eng.current_schedule)
    THEN AnalyzeWindowOf(eng, window, order)
    ELSE AnalyzeWindowOf([baseline_schedule |-> Some(baseline_schedule),
                          current_schedule |-> Some(current_schedule)],
                         window, order)

\* analyze_window(window, baseline_schedule, current_schedule) on an engine
\* that holds whatever the last call left in it: lines 129-130 put the two
\* arguments into the engine before the comparison.
AnalyzeWindowWith(eng, window, baseline_schedule, current_schedule, order) ==
    AnalyzeWindowOf([eng EXCEPT !.baseline_schedule = Some(baseline_schedule),
                                !.current_schedule = Some(current_schedule)],
                    window, order)

\* perform_as_planned_vs_as_built(baseline_schedule, as_built_schedule): the
\* two arguments are put into the engine and compared; the completed
\* activities are sorted by their finish variance.
PerformAsPlannedVsAsBuiltOf(eng, baseline_schedule, as_built_schedule, order) ==
    LET call == CompareSchedules(
                    [eng EXCEPT !.baseline_schedule = Some(baseline_schedule),
                                !.current_schedule = Some(as_built_schedule)], order)
        judged == SelectSeq(KeysInOrder(as_built_schedule.activities), LAMBDA a :
                      /\ as_built_schedule.activities[a].status = COMPLETED
                      /\ a \in DOMAIN baseline_schedule.activities
                      /\ IsSet(as_built_schedule.activities[a].actual_finish)
                      /\ IsSet(baseline_schedule.activities[a].finish_date))
        variance(a) == Days(Val(as_built_schedule.activities[a].actual_finish)
                            - Val(baseline_schedule.activities[a].finish_date))
    IN  IF call.raised # "none"
        THEN [engine |-> call.engine, raised |-> call.raised, result |-> None]
        ELSE [engine |-> call.engine, raised |-> "none",
              result |-> Some(
                [ comparison |-> Val(call.result),
                  early_activities |->
                      SelectSeq(judged, LAMBDA a : variance(a) < 0 - 2),
                  late_activities |->
                      SelectSeq(judged, LAMBDA a : variance(a) > 2),
                  on_time_activities |->
                      SelectSeq(judged, LAMBDA a :
                          variance(a) >= 0 - 2 /\ variance(a) <= 2),
                  total_activities_completed |-> Len(judged),
                  total_project_delay |-> Val(call.result).overall_delay ])]

\* The pair of schedules the windows are analysed for.
FixedPair == Val(request)

\* The project files in which A is linked to B.
LinkedFiles == { project \in XerFiles : project.task_relationships # << >> }

\* A fresh analyzer and engine, three windows, and the pair of schedules
\* every analyze_window call is given.
InitShared ==
    /\ pc = "analyzer"
    /\ CpmIdle /\ DelayIdle
    /\ engine = NoSchedules
    /\ hashOrder \in HashOrders
    /\ comparison = None
    /\ previous = None
    /\ outcome = "none"
    /\ windows = AnalysisWindows
    /\ \E b \in LinkedFiles, c \in LinkedFiles :
          request = Some([baseline_schedule |-> ParsedFiles[b],
                          current_schedule |-> ParsedFiles[c]])

\* analyze_window on any window of the list, analysed before or not.
AnalyzeAnyWindow ==
    /\ pc = "analyzer"
    /\ \E i \in DOMAIN windows :
          LET call == AnalyzeWindowWith(engine, windows[i],
                          FixedPair.baseline_schedule,
                          FixedPair.current_schedule, hashOrder)
          IN  /\ engine' = call.engine
              /\ windows' = [windows EXCEPT ![i] = call.window]
              /\ comparison' = call.result
              /\ outcome' = IF call.raised = "none" THEN "analyzed"
                            ELSE call.raised
    /\ UNCHANGED <<pc, cpmVars, hashOrder, previous, delayVars, request>>

\* perform_as_planned_vs_as_built on other schedules: the pair the other way
\* round.
PerformAsPlannedVsAsBuilt ==
    /\ pc = "analyzer"
    /\ \E baseline_schedule \in {FixedPair.current_schedule},
          as_built_schedule \in {FixedPair.baseline_schedule} :
          LET call == PerformAsPlannedVsAsBuiltOf(engine, baseline_schedule,
                          as_built_schedule, hashOrder)
          IN  /\ engine' = call.engine
              /\ previous' = call.result
              /\ comparison' = IF call.raised = "none"
                               THEN Some(Val(call.result).comparison) ELSE None
              /\ outcome' = IF call.raised = "none" THEN "as-built"
                            ELSE call.raised
    /\ UNCHANGED <<pc, cpmVars, hashOrder, delayVars, windowVars>>

NextShared == AnalyzeAnyWindow \/ PerformAsPlannedVsAsBuilt

SpecShared == InitShared /\ [][NextShared]_vars

\* Window i has been analysed.
WindowAnalyzed(i) == windows[i].critical_path_changes # << >>

\* What analyze_window gives for window i on an analyzer that has done
\* nothing else.
AloneOnFreshEngine(i) ==
    AnalyzeWindowWith(NoSchedules, AnalysisWindows[i],
                      FixedPair.baseline_schedule, FixedPair.current_schedule,
                      hashOrder).window

\* C28: for a fixed baseline and current schedule, the delays and the
\* critical path changes of an analysed window are those analyze_window
\* gives for that window alone, in whatever order the windows were analysed
\* and whatever schedules earlier calls left in the shared engine.
C28_WindowResultIndependentOfHistory ==
    \A i \in DOMAIN windows :
        WindowAnalyzed(i) =>
            /\ windows[i].delays = AloneOnFreshEngine(i).delays
            /\ windows[i].critical_path_changes
                   = AloneOnFreshEngine(i).critical_path_changes

\* The second window was analysed, with delays found, while the engine
\* holds the schedules of a later as-planned vs as-built call, and the first
\* window has not been analysed.
C28_Witness ==
    /\ WindowAnalyzed(2) /\ ~WindowAnalyzed(1)
    /\ Len(windows[2].delays) = 2
    /\ outcome = "as-built"
    /\ engine.baseline_schedule = Some(FixedPair.current_schedule)
    /\ FixedPair.current_schedule # FixedPair.baseline_schedule

----------------------------------------------------------------------------
(* Further claims about the analysis run                                    *)

\* The count of windows with a concurrent delay that the summary of the
\* windows derives from the flag of their delay events.
WindowsWithConcurrentDelay(ws) ==
    Cardinality({ i \in DOMAIN ws :
                    \E k \in DOMAIN ws[i].delays : ws[i].delays[k].is_concurrent })

\* C29: after any sequence of analyze_window and analyze_concurrent_delays
\* calls, every delay event of every window has is_concurrent false, the
\* events reported inside a concurrent group included, so the count of
\* windows with a concurrent delay derived from the flag is 0.
C29_WindowDelaysNeverFlaggedConcurrent ==
    /\ \A i \in DOMAIN windows : \A k \in DOMAIN windows[i].delays :
           ~windows[i].delays[k].is_concurrent
    /\ \A g \in DOMAIN concurrent_delays :
           \A k \in DOMAIN concurrent_delays[g].delays :
               ~concurrent_delays[g].delays[k].is_concurrent
    /\ WindowsWithConcurrentDelay(windows) = 0

\* analyze_concurrent_delays has reported a group of two delay events of
\* the second window, and both are still unflagged in the window.
C29_Witness ==
    /\ outcome = "grouped"
    /\ \E g \in DOMAIN concurrent_delays :
          /\ WindowsOf(concurrent_delays[g]) = {2}
          /\ Len(concurrent_delays[g].delays) = 2
          /\ \A k \in 1..2 :
                \E j \in DOMAIN windows[2].delays :
                    /\ windows[2].delays[j] = concurrent_delays[g].delays[k]
                    /\ ~windows[2].delays[j].is_concurrent

\* Every current percent_complete is between 0 and 100 and every baseline
\* original_duration is at least 0.
ProgressInRange ==
    /\ \A a \in DOMAIN Current.activities :
           /\ Current.activities[a].percent_complete >= 0
           /\ Current.activities[a].percent_complete <= 100
    /\ \A a \in DOMAIN Baseline.activities :
           Baseline.activities[a].original_duration >= 0

\* The baseline durations of the activities in both schedules, summed.
CommonBaselineDuration ==
    SetSum(CommonIds,
           [a \in CommonIds |-> Baseline.activities[a].original_duration])

C30_CompleteWitness ==
    /\ Compared /\ ProgressInRange
    /\ "A" \in CommonIds
    /\ Baseline.activities["A"].original_duration = 10
    /\ Current.activities["A"].percent_complete = 100
    /\ Val(comparison).spi.num = Val(comparison).spi.den

====
